---------------------------- MODULE Spec2Model ----------------------------
(***************************************************************************)
(* Model of shepplogan-rs: the projection of normalized shapes onto a      *)
(* canvas (shape/ellipse.rs, shape/rectangle.rs), the rasterizer           *)
(* (phantom.rs, fn phantom) and the Phantom value (scale, extrema).        *)
(*                                                                         *)
(* Numbers.  Every f64 of the model lies on a dyadic grid on which the     *)
(* code's arithmetic is exact, and is held as an integer scaled by a       *)
(* power of two.  The suffix of a name gives the scale:                    *)
(*     x2 = 2*x,  x4 = 4*x,  x8 = 8*x,  x16 = 16*x,  x64 = 64*x.           *)
(* Shape parameters are multiples of 1/2 (scale 2), nx/2, ny/2 and n_min   *)
(* have scale 2, projected ellipse coordinates scale 4 (squares 16),       *)
(* projected rectangle corners scale 8 (dot products 64).  Intensities     *)
(* and buffer values are integers.                                         *)
(*                                                                         *)
(* Angles.  theta is taken from Thetas.  For theta = 0 the f64 values are  *)
(* sin = 0, cos = 1, sin(theta + pi/2) = 1 exactly, and                    *)
(* cos(theta + FRAC_PI_2) = 6.1e-17: not zero.  That last value is kept    *)
(* as a positive amount below every grid step ("tiny"), rounded as f64     *)
(* rounds it where it is added to a grid value.                            *)
(*                                                                         *)
(* u32.  A u32 is held as two 16-bit limbs [hi, lo]; wrapping arithmetic   *)
(* is arithmetic modulo Limb*Limb.  The overflow of a u32 operation is a   *)
(* panic in a build with overflow checks ("debug") and a wrap in one       *)
(* without ("release"); the build is chosen in Init.                       *)
(***************************************************************************)
EXTENDS Integers, Sequences, FiniteSets

VARIABLES
    nx,         \* canvas width  (u32 argument of Phantom::new)
    ny,         \* canvas height (u32 argument of Phantom::new)
    shapes,     \* the &[Shape] argument of Phantom::new
    build,      \* "debug" (overflow checks) or "release" (wrapping)
    pc,         \* position in Phantom::new / phantom, or "done" / "panic"
    canvas,     \* Vec<ShapeOnCanvas> (phantom.rs:19-22)
    buflen,     \* u32 value of nx * ny (phantom.rs:79), as limbs
    data,       \* the buffer arr / Phantom.data: 0..len-1 -> value
    minmax,     \* Phantom.minmax: None or [min, max]
    si,         \* index of the shape being scanned (1-based)
    x,          \* loop variable x of phantom (phantom.rs:83)
    y,          \* loop variable y of phantom (phantom.rs:85)
    hits,       \* number of buffer additions made so far (phantom.rs:88)
    trace       \* the calls made on the Phantom: op, factor, the Phantom
                \* before the call, the value returned

vars == <<nx, ny, shapes, build, pc, canvas, buflen, data, minmax, si, x, y,
          hits, trace>>

-----------------------------------------------------------------------------
(* Bounds of the model *)

\* canvases are 0..MaxN by 0..MaxN
MaxN == 4
\* longest shape list drawn from Overlays
MaxShapes == 2
\* longest one-row canvas of SpecPhantom
MaxLen == 3
\* number of scale / extrema calls of SpecPhantom
MaxOps == 3

\* 2^16: a u32 is two limbs
Limb == 65536
\* Option<(f64, f64)>
None == [none |-> TRUE, val |-> <<>>]
Some(v) == [none |-> FALSE, val |-> v]

Min(a, b) == IF a <= b THEN a ELSE b
Max(a, b) == IF a >= b THEN a ELSE b
Abs(a) == IF a < 0 THEN -a ELSE a
SetMin(S) == CHOOSE m \in S : \A e \in S : m <= e
SetMax(S) == CHOOSE m \in S : \A e \in S : m >= e

\* f64::floor and f64::ceil of v / d, d > 0
Floor(v, d) == v \div d
Ceil(v, d) == -((-v) \div d)

\* f64::sqrt on a perfect square
Sqrt(n) == CHOOSE r \in 0..n : r * r = n

\* `as u32` on an integral f64: saturating, negative values become 0
AsU32(v) == IF v < 0 THEN 0 ELSE v

-----------------------------------------------------------------------------
(* u32 arithmetic *)

\* the u32 with mathematical value t modulo 2^32, for |t| < 2^31
WrapU32(t) == [hi |-> (t \div Limb) % Limb, lo |-> t % Limb]

\* the digits (base 2^8, least significant first) of a u32; digit products
\* stay below 2^31
Digits(u) ==
    <<u.lo % 256, u.lo \div 256, u.hi % 256, u.hi \div 256>>

\* the convolution sum of digit position k (0-based) of a product
Conv(a, b, k) ==
    LET I == {i \in 1..4 : (k + 2 - i) \in 1..4}
        RECURSIVE Sum(_)
        Sum(S) == IF S = {} THEN 0
                  ELSE LET i == CHOOSE j \in S : TRUE
                       IN  a[i] * b[k + 2 - i] + Sum(S \ {i})
    IN  Sum(I)

RECURSIVE MulDigits(_, _, _, _)
\* digits k..7 of the mathematical product of two u32, carry c coming in
MulDigits(a, b, k, c) ==
    IF k > 7 THEN <<>>
    ELSE LET t == Conv(a, b, k) + c
         IN  <<t % 256>> \o MulDigits(a, b, k + 1, t \div 256)

\* u32 * u32: the wrapped result and whether the product left the u32 range
MulU32(u, v) ==
    LET p == MulDigits(Digits(u), Digits(v), 0, 0)
    IN  [val |-> [hi |-> p[4] * 256 + p[3], lo |-> p[2] * 256 + p[1]],
         overflow |-> \E k \in 5..8 : p[k] # 0,
         product |-> p]

\* a u32 that fits the model's integers, as an integer
ToInt(u) == u.hi * Limb + u.lo

-----------------------------------------------------------------------------
(* Shapes in the normalized square (shape/mod.rs, Shape::ellipse, rectangle) *)

Ellipse(cx2, cy2, major2, minor2, theta, intensity) ==
    [kind |-> "Ellipse", center_x2 |-> cx2, center_y2 |-> cy2,
     major_axis2 |-> major2, minor_axis2 |-> minor2, theta |-> theta,
     intensity |-> intensity]

Rectangle(cx2, cy2, width2, height2, theta, intensity) ==
    [kind |-> "Rectangle", center_x2 |-> cx2, center_y2 |-> cy2,
     width2 |-> width2, height2 |-> height2, theta |-> theta,
     intensity |-> intensity]

\* theta.to_radians().sin() and .cos(), and the same of theta + FRAC_PI_2.
\* pi2_cos_tiny: the f64 cos(theta + FRAC_PI_2) is a positive value below
\* every grid step where the exact cosine is 0.
Trig(theta) ==
    CASE theta = 0 -> [sin |-> 0, cos |-> 1, pi2_sin |-> 1, pi2_cos |-> 0,
                       pi2_cos_tiny |-> TRUE]

\* n_min taken as the larger of nx_half and ny_half, scale 2
NMin2_Max(w, h) == Max(w, h)

\* n_min, scale 2: min_by(nx_half, ny_half)
NMin2(w, h) == Min(w, h)

BoundingBox(x_low, x_high, y_low, y_high) ==
    [x_low |-> x_low, x_high |-> x_high, y_low |-> y_low, y_high |-> y_high]

-----------------------------------------------------------------------------
(* Ellipse::on_canvas (shape/ellipse.rs:52-113) *)

\* the clamp with the upper limit l where ellipse.rs:97 has l - 1
EllipseClamp_ToLimit(b, l) ==
    IF b < 0 THEN 0
    ELSE IF b >= l THEN AsU32(l)
    ELSE AsU32(b)

\* one bound of the ellipse's bounding box: b is the floor or ceil already
\* taken, l the dimension of its axis
EllipseClamp(b, l) ==
    IF b < 0 THEN 0
    ELSE IF b >= l THEN AsU32(l - 1)
    ELSE AsU32(b)

RECURSIVE Pow2Floor(_)
\* the largest power of two not above m, m >= 1
Pow2Floor(m) == IF m < 2 THEN 1 ELSE 2 * Pow2Floor(m \div 2)

\* half the distance from the integer m >= 1 to the next f64 below it and
\* above it, in units of 2^-54
HalfUlpBelow(m) == IF m = Pow2Floor(m) THEN m ELSE 2 * Pow2Floor(m)
HalfUlpAbove(m) == 2 * Pow2Floor(m)

\* (t4 / 4) * cos(FRAC_PI_2) > q * 2^-54, with the f64
\* cos(FRAC_PI_2) = 0x1.1a62633145c07p-54 = 1.10306 * 2^-54
TinyExceeds(t4, q) == t4 * 1103 > 4000 * q

\* A half extent is [v, tiny]: v / 4 + (tiny / 4) * cos(FRAC_PI_2), and
\* v = 0 where tiny > 0.  The sum of a center and a tiny amount is rounded
\* to f64: it is the center itself unless the amount exceeds half the
\* distance to the neighbouring f64.

\* (center - half).floor()
FloorLow(center4, half) ==
    IF half.tiny = 0 \/ center4 % 4 # 0
    THEN Floor(center4 - half.v, 4)
    ELSE LET c == center4 \div 4
         IN  IF c = 0 THEN -1
             ELSE IF c > 0
             THEN IF TinyExceeds(half.tiny, HalfUlpBelow(c)) THEN c - 1 ELSE c
             ELSE IF TinyExceeds(half.tiny, HalfUlpAbove(-c)) THEN c - 1 ELSE c

\* (center + half).ceil()
CeilHigh(center4, half) ==
    IF half.tiny = 0 \/ center4 % 4 # 0
    THEN Ceil(center4 + half.v, 4)
    ELSE LET c == center4 \div 4
         IN  IF c = 0 THEN 1
             ELSE IF c > 0
             THEN IF TinyExceeds(half.tiny, HalfUlpAbove(c)) THEN c + 1 ELSE c
             ELSE IF TinyExceeds(half.tiny, HalfUlpBelow(-c)) THEN c + 1 ELSE c

EllipseOnCanvas(e, w, h) ==
    LET t == Trig(e.theta)
        n_min2 == NMin2(w, h)
        center_x4 == e.center_x2 * n_min2 + 2 * w
        center_y4 == e.center_y2 * n_min2 + 2 * h
        major_axis4 == e.major_axis2 * n_min2
        minor_axis4 == e.minor_axis2 * n_min2
        ux == major_axis4 * t.cos
        uy == major_axis4 * t.sin
        vx == minor_axis4 * t.pi2_cos
        vy == minor_axis4 * t.pi2_sin
        \* sqrt(ux^2 + vx^2): a tiny vx counts only beside ux = 0
        halfwidth == [v |-> Sqrt(ux * ux + vx * vx),
                      tiny |-> IF ux = 0 /\ t.pi2_cos_tiny
                               THEN Abs(minor_axis4) ELSE 0]
        halfheight == [v |-> Sqrt(uy * uy + vy * vy), tiny |-> 0]
    IN  [kind |-> "Ellipse",
         center_x4 |-> center_x4,
         center_y4 |-> center_y4,
         major_axis_squared16 |-> major_axis4 * major_axis4,
         minor_axis_squared16 |-> minor_axis4 * minor_axis4,
         theta_sin |-> t.sin,
         theta_cos |-> t.cos,
         bbox |-> BoundingBox(
             EllipseClamp(FloorLow(center_x4, halfwidth), w),
             EllipseClamp(CeilHigh(center_x4, halfwidth), w),
             EllipseClamp(FloorLow(center_y4, halfheight), h),
             EllipseClamp(CeilHigh(center_y4, halfheight), h))]

\* inside with < where EllipseOnCanvas::inside compares with <=
EllipseInside_Strict(c, px, py) ==
    LET x_diff4 == 4 * px - c.center_x4
        y_diff4 == 4 * py - c.center_y4
        p == c.theta_cos * x_diff4 + c.theta_sin * y_diff4
        q == c.theta_sin * x_diff4 - c.theta_cos * y_diff4
    IN  IF c.major_axis_squared16 = 0 \/ c.minor_axis_squared16 = 0
        THEN FALSE
        ELSE p * p * c.minor_axis_squared16 + q * q * c.major_axis_squared16
                 < c.major_axis_squared16 * c.minor_axis_squared16

\* EllipseOnCanvas::inside (shape/ellipse.rs:143-149).  A division by a zero
\* squared axis gives an infinity or a NaN, and the comparison is false.
EllipseInside(c, px, py) ==
    LET x_diff4 == 4 * px - c.center_x4
        y_diff4 == 4 * py - c.center_y4
        p == c.theta_cos * x_diff4 + c.theta_sin * y_diff4
        q == c.theta_sin * x_diff4 - c.theta_cos * y_diff4
    IN  IF c.major_axis_squared16 = 0 \/ c.minor_axis_squared16 = 0
        THEN FALSE
        ELSE p * p * c.minor_axis_squared16 + q * q * c.major_axis_squared16
                 <= c.major_axis_squared16 * c.minor_axis_squared16

-----------------------------------------------------------------------------
(* Rectangle::on_canvas (shape/rectangle.rs:46-133) *)

\* the closure min_max: the same limit nx_f serves both axes
RectMinMax(arr8, nx_f) ==
    <<AsU32(SetMin({Max(Floor(v, 8), 0) : v \in arr8})),
      AsU32(SetMax({Min(Ceil(v, 8), nx_f) : v \in arr8}))>>

RectangleOnCanvas(r, w, h) ==
    LET t == Trig(r.theta)
        n_min2 == NMin2(w, h)
        \* corners, scale 4 (width_half = width / 2)
        a4 == <<2 * r.center_x2 - r.width2, 2 * r.center_y2 - r.height2>>
        b4 == <<2 * r.center_x2 - r.width2, 2 * r.center_y2 + r.height2>>
        c4 == <<2 * r.center_x2 + r.width2, 2 * r.center_y2 + r.height2>>
        d4 == <<2 * r.center_x2 + r.width2, 2 * r.center_y2 - r.height2>>
        rotate(p) == <<p[1] * t.cos - p[2] * t.sin, p[1] * t.sin + p[2] * t.cos>>
        \* scale 8
        scale_shift(p) == <<p[1] * n_min2 + 4 * w, p[2] * n_min2 + 4 * h>>
        a == scale_shift(rotate(a4))
        b == scale_shift(rotate(b4))
        c == scale_shift(rotate(c4))
        d == scale_shift(rotate(d4))
        xs == RectMinMax({a[1], b[1], c[1], d[1]}, w)
        ys == RectMinMax({a[2], b[2], c[2], d[2]}, w)
        ab == <<b[1] - a[1], b[2] - a[2]>>
        bc == <<c[1] - b[1], c[2] - b[2]>>
    IN  [kind |-> "Rectangle",
         a8 |-> a, b8 |-> b, ab8 |-> ab, bc8 |-> bc,
         abab64 |-> ab[1] * ab[1] + ab[2] * ab[2],
         bcbc64 |-> bc[1] * bc[1] + bc[2] * bc[2],
         bbox |-> BoundingBox(xs[1], xs[2], ys[1], ys[2])]

\* inside with < where RectangleOnCanvas::inside compares with <=
RectangleInside_Strict(c, px, py) ==
    LET am == <<8 * px - c.a8[1], 8 * py - c.a8[2]>>
        bm == <<8 * px - c.b8[1], 8 * py - c.b8[2]>>
        abam == c.ab8[1] * am[1] + c.ab8[2] * am[2]
        bcbm == c.bc8[1] * bm[1] + c.bc8[2] * bm[2]
    IN  0 < abam /\ abam < c.abab64 /\ 0 < bcbm /\ bcbm < c.bcbc64

\* RectangleOnCanvas::inside (shape/rectangle.rs:157-163)
RectangleInside(c, px, py) ==
    LET am == <<8 * px - c.a8[1], 8 * py - c.a8[2]>>
        bm == <<8 * px - c.b8[1], 8 * py - c.b8[2]>>
        abam == c.ab8[1] * am[1] + c.ab8[2] * am[2]
        bcbm == c.bc8[1] * bm[1] + c.bc8[2] * bm[2]
    IN  0 <= abam /\ abam <= c.abab64 /\ 0 <= bcbm /\ bcbm <= c.bcbc64

-----------------------------------------------------------------------------
(* Shape dispatch (shape/mod.rs:101-153) *)

\* on_canvas with the intensity 1 in place of the intensity of the shape
OnCanvas_UnitIntensity(s, w, h) ==
    [intensity |-> 1,
     kind |-> IF s.kind = "Ellipse" THEN EllipseOnCanvas(s, w, h)
              ELSE RectangleOnCanvas(s, w, h)]

\* Shape::on_canvas
OnCanvas(s, w, h) ==
    [intensity |-> s.intensity,
     kind |-> IF s.kind = "Ellipse" THEN EllipseOnCanvas(s, w, h)
              ELSE RectangleOnCanvas(s, w, h)]

\* ShapeOnCanvas::inside
Inside(c, px, py) ==
    IF c.kind.kind = "Ellipse" THEN EllipseInside(c.kind, px, py)
    ELSE RectangleInside(c.kind, px, py)

\* ShapeOnCanvas::bounding_box
BBox(c) == c.kind.bbox

\* ShapeOnCanvas::intensity
Intensity(c) == c.intensity

-----------------------------------------------------------------------------
(* Inputs *)

Builds == {"debug", "release"}
Thetas == {0}
\* centre coordinates, scale 2: -2, -1, -1/2, 0, 1/2, 1, 2
Centres2 == {-4, -2, -1, 0, 1, 2, 4}
\* axis lengths and side lengths, scale 2: -1, 0, 1/2, 1, 2
Extents2 == {-2, 0, 1, 2, 4}
\* intensities of the single shapes
Intensities == {1, -2}

Ellipses ==
    {Ellipse(cx, cy, a, b, th, i) :
        cx \in Centres2, cy \in Centres2, a \in Extents2, b \in Extents2,
        th \in Thetas, i \in Intensities}

Rectangles ==
    {Rectangle(cx, cy, a, b, th, i) :
        cx \in Centres2, cy \in Centres2, a \in Extents2, b \in Extents2,
        th \in Thetas, i \in Intensities}

\* shapes that overlap one another, with intensities of both signs
Overlays ==
    {Ellipse(0, 0, 2, 2, 0, 2), Ellipse(0, 0, 1, 1, 0, -1),
     Ellipse(1, 0, 1, 2, 0, 1), Rectangle(0, 0, 1, 1, 0, 3)}

RECURSIVE Lists(_, _)
\* the sequences over S of length n
Lists(S, n) ==
    IF n = 0 THEN {<<>>}
    ELSE {<<e>> \o l : e \in S, l \in Lists(S, n - 1)}

ShapeLists ==
    {<<s>> : s \in Ellipses \cup Rectangles}
        \cup UNION {Lists(Overlays, n) : n \in 0..MaxShapes}

-----------------------------------------------------------------------------
(* Phantom::new and fn phantom (phantom.rs:18-25, 78-94) *)

Panics == {"panic_overflow", "panic_index"}

\* vec![0.0; len]
Zeros(len) == [i \in 0..(len - 1) |-> 0]

\* the usize index idx into a Vec of len elements (len below 2^16)
IndexInBounds(idx, len) == idx.hi = 0 /\ idx.lo < len

Init ==
    /\ nx \in 0..MaxN
    /\ ny \in 0..MaxN
    /\ shapes \in ShapeLists
    /\ build \in Builds
    /\ pc = "new"
    /\ canvas = <<>>
    /\ buflen = WrapU32(0)
    /\ data = <<>>
    /\ minmax = None
    /\ si = 1
    /\ x = 0
    /\ y = 0
    /\ hits = 0
    /\ trace = <<>>

\* Phantom::new up to the first shape of phantom: projects every shape
\* (phantom.rs:19-22) and allocates the buffer (phantom.rs:79)
New ==
    /\ pc = "new"
    /\ canvas' = [i \in 1..Len(shapes) |-> OnCanvas(shapes[i], nx, ny)]
    /\ LET m == MulU32(WrapU32(nx), WrapU32(ny))
       IN  IF m.overflow /\ build = "debug"
           THEN /\ pc' = "panic_overflow"
                /\ UNCHANGED <<buflen, data>>
           ELSE /\ pc' = "shape"
                /\ buflen' = m.val
                /\ data' = Zeros(ToInt(m.val))
    /\ UNCHANGED <<nx, ny, shapes, build, minmax, si, x, y, hits, trace>>

\* the ranges x_low..=x_high and y_low..=y_high hold a pixel
Scans(bbox) == bbox.x_low <= bbox.x_high /\ bbox.y_low <= bbox.y_high

\* for shape in shapes.iter(): enter the loops of the next shape, or pass
\* it when its ranges hold no pixel (phantom.rs:81-85)
BeginShape ==
    /\ pc = "shape"
    /\ si <= Len(canvas)
    /\ LET bbox == BBox(canvas[si])
       IN  IF Scans(bbox)
           THEN /\ pc' = "pixel"
                /\ x' = bbox.x_low
                /\ y' = bbox.y_low
                /\ si' = si
           ELSE /\ si' = si + 1
                /\ UNCHANGED <<pc, x, y>>
    /\ UNCHANGED <<nx, ny, shapes, build, canvas, buflen, data, minmax, hits,
                   trace>>

\* the loop variables after the body ran at (x, y) (phantom.rs:83, 85)
Advance ==
    LET bbox == BBox(canvas[si])
    IN  IF y < bbox.y_high
        THEN /\ y' = y + 1
             /\ UNCHANGED <<x, si>>
             /\ pc' = "pixel"
        ELSE IF x < bbox.x_high
        THEN /\ x' = x + 1
             /\ y' = bbox.y_low
             /\ si' = si
             /\ pc' = "pixel"
        ELSE /\ si' = si + 1
             /\ pc' = "shape"
             /\ UNCHANGED <<x, y>>

\* ny - y - 1 in u32 arithmetic leaves the u32 range
RowUnderflows == ny - y - 1 < 0

\* the index without the flip of the row: y * nx + x
PixelIndex_NoFlip == WrapU32(y * nx + x)

\* ((ny - y - 1) * nx + x) as usize, wrapping
PixelIndex == WrapU32((ny - y - 1) * nx + x)

\* the loop body where inside is false (phantom.rs:87)
PixelOutside ==
    /\ pc = "pixel"
    /\ ~Inside(canvas[si], x, y)
    /\ Advance
    /\ UNCHANGED <<nx, ny, shapes, build, canvas, buflen, data, minmax, hits,
                   trace>>

\* the loop body with = where phantom.rs:88 has +=
PixelAdd_Assign ==
    /\ pc = "pixel"
    /\ Inside(canvas[si], x, y)
    /\ ~(RowUnderflows /\ build = "debug")
    /\ IndexInBounds(PixelIndex, ToInt(buflen))
    /\ data' = [data EXCEPT ![PixelIndex.lo] = Intensity(canvas[si])]
    /\ hits' = hits + 1
    /\ Advance
    /\ UNCHANGED <<nx, ny, shapes, build, canvas, buflen, minmax, trace>>

\* the loop body where inside is true: the buffer entry is updated
\* (phantom.rs:88)
PixelAdd ==
    /\ pc = "pixel"
    /\ Inside(canvas[si], x, y)
    /\ ~(RowUnderflows /\ build = "debug")
    /\ IndexInBounds(PixelIndex, ToInt(buflen))
    /\ data' = [data EXCEPT ![PixelIndex.lo] = @ + Intensity(canvas[si])]
    /\ hits' = hits + 1
    /\ Advance
    /\ UNCHANGED <<nx, ny, shapes, build, canvas, buflen, minmax, trace>>

\* the loop body where inside is true and the index expression overflows
\* in a build with overflow checks
PixelOverflow ==
    /\ pc = "pixel"
    /\ Inside(canvas[si], x, y)
    /\ RowUnderflows /\ build = "debug"
    /\ pc' = "panic_overflow"
    /\ UNCHANGED <<nx, ny, shapes, build, canvas, buflen, data, minmax, si,
                   x, y, hits, trace>>

\* the loop body where inside is true and the index is not in the buffer
PixelOutOfBounds ==
    /\ pc = "pixel"
    /\ Inside(canvas[si], x, y)
    /\ ~(RowUnderflows /\ build = "debug")
    /\ ~IndexInBounds(PixelIndex, ToInt(buflen))
    /\ pc' = "panic_index"
    /\ UNCHANGED <<nx, ny, shapes, build, canvas, buflen, data, minmax, si,
                   x, y, hits, trace>>

\* phantom returns arr and Phantom::new wraps it (phantom.rs:93, 24)
Finish ==
    /\ pc = "shape"
    /\ si > Len(canvas)
    /\ pc' = "done"
    /\ minmax' = None
    /\ UNCHANGED <<nx, ny, shapes, build, canvas, buflen, data, si, x, y,
                   hits, trace>>

Next ==
    \/ New
    \/ BeginShape
    \/ PixelOutside
    \/ PixelAdd
    \/ PixelOverflow
    \/ PixelOutOfBounds
    \/ Finish

Spec == Init /\ [][Next]_vars

-----------------------------------------------------------------------------
(* f64 values of the extrema cache: finite, infinite or NaN *)

Fin(v) == [class |-> "finite", v |-> v]
PosInf == [class |-> "inf", v |-> 1]
NegInf == [class |-> "inf", v |-> -1]
NaN == [class |-> "nan", v |-> 0]

\* a < b on f64
FLt(a, b) ==
    IF a.class = "nan" \/ b.class = "nan" THEN FALSE
    ELSE IF a.class = "finite" /\ b.class = "finite" THEN a.v < b.v
    ELSE IF a.class = "inf" /\ b.class = "inf" THEN a.v < b.v
    ELSE IF a.class = "inf" THEN a.v < 0
    ELSE b.v > 0

\* a * factor on f64, factor finite
FMul(a, factor) ==
    IF a.class = "nan" THEN NaN
    ELSE IF a.class = "finite" THEN Fin(a.v * factor)
    ELSE IF factor = 0 THEN NaN
    ELSE IF factor > 0 THEN a
    ELSE [class |-> "inf", v |-> -a.v]

-----------------------------------------------------------------------------
(* Phantom::scale and Phantom::extrema (phantom.rs:28-58) *)

\* the Phantom held by the state
Self == [data |-> data, minmax |-> minmax]

\* scale with the factor added where Phantom::scale multiplies
scale_Add(self, factor) ==
    [data |-> [i \in DOMAIN self.data |-> self.data[i] + factor],
     minmax |-> IF self.minmax.none THEN None
                ELSE Some(<<Fin(self.minmax.val[1].v + factor),
                            Fin(self.minmax.val[2].v + factor)>>)]

\* scale with the elements written back in reverse order
scale_Reversed(self, factor) ==
    LET n == Cardinality(DOMAIN self.data)
    IN  [data |-> [i \in DOMAIN self.data |-> self.data[n - 1 - i] * factor],
         minmax |-> IF self.minmax.none THEN None
                    ELSE Some(<<FMul(self.minmax.val[1], factor),
                                FMul(self.minmax.val[2], factor)>>)]

\* Phantom::scale
scale(self, factor) ==
    [data |-> [i \in DOMAIN self.data |-> self.data[i] * factor],
     minmax |-> IF self.minmax.none THEN None
                ELSE Some(<<FMul(self.minmax.val[1], factor),
                            FMul(self.minmax.val[2], factor)>>)]

RECURSIVE ExtremaFold_ZeroInit(_, _)
\* the fold started from (0.0, 0.0) where phantom.rs:46 starts from
\* (INFINITY, NEG_INFINITY)
ExtremaFold_ZeroInit(d, n) ==
    IF n = 0 THEN <<Fin(0), Fin(0)>>
    ELSE LET acc == ExtremaFold_ZeroInit(d, n - 1)
             xv == Fin(d[n - 1])
         IN  <<IF FLt(xv, acc[1]) THEN xv ELSE acc[1],
               IF FLt(acc[2], xv) THEN xv ELSE acc[2]>>

RECURSIVE ExtremaFold(_, _)
\* the fold of extrema over the first n elements of d (phantom.rs:46-54)
ExtremaFold(d, n) ==
    IF n = 0 THEN <<PosInf, NegInf>>
    ELSE LET acc == ExtremaFold(d, n - 1)
             xv == Fin(d[n - 1])
         IN  <<IF FLt(xv, acc[1]) THEN xv ELSE acc[1],
               IF FLt(acc[2], xv) THEN xv ELSE acc[2]>>

\* extrema without line 55: the computed pair is returned and not stored
extrema_NoStore(self) ==
    IF ~self.minmax.none
    THEN [self |-> self, ret |-> self.minmax.val]
    ELSE [self |-> self,
          ret |-> ExtremaFold(self.data, Cardinality(DOMAIN self.data))]

\* Phantom::extrema: the Phantom after the call and the pair returned
extrema(self) ==
    IF ~self.minmax.none
    THEN [self |-> self, ret |-> self.minmax.val]
    ELSE LET mm == ExtremaFold(self.data, Cardinality(DOMAIN self.data))
         IN  [self |-> [data |-> self.data, minmax |-> Some(mm)],
              ret |-> mm]

\* the factors of scale
Factors == {-1, 0, 1, 2}

Scale ==
    /\ pc = "done"
    /\ Len(trace) < MaxOps
    /\ \E factor \in Factors :
        LET r == scale(Self, factor)
        IN  /\ data' = r.data
            /\ minmax' = r.minmax
            /\ trace' = Append(trace, [op |-> "scale", factor |-> factor,
                                       before |-> Self, ret |-> <<>>])
    /\ UNCHANGED <<nx, ny, shapes, build, pc, canvas, buflen, si, x, y, hits>>

Extrema ==
    /\ pc = "done"
    /\ Len(trace) < MaxOps
    /\ LET r == extrema(Self)
       IN  /\ data' = r.self.data
           /\ minmax' = r.self.minmax
           /\ trace' = Append(trace, [op |-> "extrema", factor |-> 0,
                                      before |-> Self, ret |-> r.ret])
    /\ UNCHANGED <<nx, ny, shapes, build, pc, canvas, buflen, si, x, y, hits>>

\* intensities of the one-pixel shapes of SpecPhantom
Values == {-2, 0, 1, 3}

\* one rectangle around each pixel of a len by 1 canvas, the rectangle
\* around pixel i - 1 with intensity vals[i]
PixelShapes(len, vals) ==
    [i \in 1..len |-> Rectangle(4 * (i - 1) - 2 * len, -2, 1, 1, 0, vals[i])]

\* the Phantoms of SpecPhantom: every buffer of up to MaxLen values drawn
\* as one row, and a square that covers its 2 by 2 canvas
PhantomInputs ==
    UNION {{[nx |-> len, ny |-> 1, shapes |-> PixelShapes(len, vals)] :
              vals \in [1..len -> Values]} : len \in 0..MaxLen}
      \cup {[nx |-> 2, ny |-> 2, shapes |-> <<Rectangle(0, 0, 4, 4, 0, 1)>>]}

InitPhantom ==
    /\ \E in \in PhantomInputs :
        /\ nx = in.nx
        /\ ny = in.ny
        /\ shapes = in.shapes
    /\ build \in Builds
    /\ pc = "new"
    /\ canvas = <<>>
    /\ buflen = WrapU32(0)
    /\ data = <<>>
    /\ minmax = None
    /\ si = 1
    /\ x = 0
    /\ y = 0
    /\ hits = 0
    /\ trace = <<>>

NextPhantom ==
    \/ Next
    \/ Scale
    \/ Extrema

SpecPhantom == InitPhantom /\ [][NextPhantom]_vars

-----------------------------------------------------------------------------
(* Properties of the projection and of the rasterizer, under Spec *)

\* the pixels of the canvas
CanvasPixels == (0..(nx - 1)) \X (0..(ny - 1))

\* every shape of the list is an ellipse
AllEllipses == \A i \in 1..Len(shapes) : shapes[i].kind = "Ellipse"

RECURSIVE SumInside(_, _, _)
\* the sum of the intensities of the first n projected shapes that hold
\* the point (px, py)
SumInside(n, px, py) ==
    IF n = 0 THEN 0
    ELSE SumInside(n - 1, px, py)
           + (IF Inside(canvas[n], px, py) THEN Intensity(canvas[n]) ELSE 0)

\* the extent of a projected shape, scale 8: its corners (rectangle) or its
\* center plus and minus its half extents (ellipse)
Extent8(c) ==
    IF c.kind.kind = "Rectangle"
    THEN LET k == c.kind
         IN  {k.a8, k.b8,
              <<k.b8[1] + k.bc8[1], k.b8[2] + k.bc8[2]>>,
              <<k.a8[1] + k.bc8[1], k.a8[2] + k.bc8[2]>>}
    ELSE LET k == c.kind
             hw == Sqrt(k.theta_cos * k.theta_cos * k.major_axis_squared16
                        + k.theta_sin * k.theta_sin * k.minor_axis_squared16)
             hh == Sqrt(k.theta_sin * k.theta_sin * k.major_axis_squared16
                        + k.theta_cos * k.theta_cos * k.minor_axis_squared16)
         IN  {<<2 * (k.center_x4 - hw), 2 * (k.center_y4 - hh)>>,
              <<2 * (k.center_x4 + hw), 2 * (k.center_y4 + hh)>>}

\* the projected shape lies fully inside the canvas: between the first and
\* the last pixel of each axis
FullyInside(c) ==
    \A p \in Extent8(c) :
        /\ 0 <= p[1] /\ p[1] <= 8 * (nx - 1)
        /\ 0 <= p[2] /\ p[2] <= 8 * (ny - 1)

\* the shape has a positive extent along both of its axes
PositiveExtent(s) ==
    IF s.kind = "Ellipse" THEN s.major_axis2 > 0 /\ s.minor_axis2 > 0
    ELSE s.width2 > 0 /\ s.height2 > 0

\* the canvas holds a pixel and every shape has positive extents
Regular ==
    /\ nx >= 1 /\ ny >= 1
    /\ \A i \in 1..Len(shapes) : PositiveExtent(shapes[i])

\* C1 (as claimed, stated on canvases that hold a pixel and shapes of
\* positive extent): the bounding box of every projected shape, ellipse or
\* rectangle, satisfies x_low <= x_high < nx and y_low <= y_high < ny.
C1_BBoxClamped ==
    (pc # "new" /\ Regular) =>
        \A i \in 1..Len(canvas) :
            LET b == BBox(canvas[i])
            IN  /\ b.x_low <= b.x_high /\ b.x_high < nx
                /\ b.y_low <= b.y_high /\ b.y_high < ny

\* C2 (as claimed, stated on canvases that hold a pixel and shapes of
\* positive extent): the scan over the bounding boxes never accesses the
\* buffer at an index >= nx*ny.
C2_NoOutOfBounds == Regular => pc # "panic_index"

\* C3 (as claimed, stated on canvases that hold a pixel and shapes of
\* positive extent): every pixel (x, y) for which the rasterizer computes a buffer index (inside is true at it)
\* satisfies x < nx and y < ny, so that ny - y - 1 does not underflow and
\* the index lies in row ny - 1 - y.
C3_IndexedPixelOnCanvas ==
    (Regular /\ pc = "pixel" /\ Inside(canvas[si], x, y)) =>
        (x < nx /\ y < ny)

\* C4: for a list of axis-parallel ellipses the rendering completes, the buffer has nx*ny
\* entries and the entry at (ny - y - 1)*nx + x of every canvas pixel (x, y)
\* is the sum of the intensities of the ellipses whose inside(x, y) is true;
\* for one ellipse of intensity 1 every entry is 1 or 0.
C4_EllipseScanMatchesFullTest ==
    AllEllipses =>
        /\ pc \notin Panics
        /\ pc = "done" =>
            /\ DOMAIN data = 0..(nx * ny - 1)
            /\ \A p \in CanvasPixels :
                 data[(ny - p[2] - 1) * nx + p[1]]
                     = SumInside(Len(canvas), p[1], p[2])
            /\ (Len(shapes) = 1 /\ shapes[1].intensity = 1) =>
                 \A i \in DOMAIN data : data[i] \in {0, 1}

\* C4 witness: two overlapping ellipses were rendered; one pixel lies in
\* both and holds the sum of both intensities, another lies in one only
C4_Witness ==
    /\ pc = "done"
    /\ AllEllipses
    /\ Len(shapes) = 2
    /\ \E p \in CanvasPixels :
        /\ Inside(canvas[1], p[1], p[2]) /\ Inside(canvas[2], p[1], p[2])
        /\ data[(ny - p[2] - 1) * nx + p[1]]
             = Intensity(canvas[1]) + Intensity(canvas[2])
    /\ \E p \in CanvasPixels :
        /\ Inside(canvas[1], p[1], p[2]) /\ ~Inside(canvas[2], p[1], p[2])
        /\ data[(ny - p[2] - 1) * nx + p[1]] = Intensity(canvas[1])

\* C5 (as claimed): on a canvas with nx, ny >= 1, for one shape of either
\* kind with positive extent and non-zero intensity that lies fully inside
\* the canvas, the
\* number of canvas pixels with inside true equals the number of buffer
\* entries equal to the intensity.
C5_InsideCountEqualsBufferCount ==
    (/\ pc = "done" /\ Regular
     /\ Len(shapes) = 1 /\ shapes[1].intensity # 0
     /\ FullyInside(canvas[1])) =>
        Cardinality({p \in CanvasPixels : Inside(canvas[1], p[1], p[2])})
            = Cardinality({i \in DOMAIN data : data[i] = Intensity(canvas[1])})

-----------------------------------------------------------------------------
(* Properties of the Phantom value, under SpecPhantom *)

\* the values of a buffer
Range(d) == {d[i] : i \in DOMAIN d}

\* (minimum, maximum) of a non-empty buffer
TrueExtrema(d) == <<Fin(SetMin(Range(d))), Fin(SetMax(Range(d)))>>

\* the Phantom after call k of the trace
After(k) == IF k = Len(trace) THEN Self ELSE trace[k + 1].before

\* C6 (as claimed): after any sequence of scale and extrema calls on a
\* Phantom with a non-empty buffer, a cache that is set equals (minimum,
\* maximum) of the current buffer, for positive, zero and negative factors.
C6_CacheIsTrueExtrema ==
    (pc = "done" /\ DOMAIN data # {} /\ ~minmax.none) =>
        minmax.val = TrueExtrema(data)

\* C7: the first extrema call on a non-empty buffer returns (min, max) of
\* the buffer and stores it; an extrema call that follows an extrema call
\* returns the same pair and leaves cache and buffer as they were.
C7_ExtremaCachedAndIdempotent ==
    \A k \in 1..Len(trace) :
        trace[k].op = "extrema" =>
            /\ (trace[k].before.minmax.none
                    /\ DOMAIN trace[k].before.data # {}) =>
                 /\ trace[k].ret = TrueExtrema(trace[k].before.data)
                 /\ After(k).minmax = Some(trace[k].ret)
            /\ (k > 1 /\ trace[k - 1].op = "extrema") =>
                 /\ trace[k].ret = trace[k - 1].ret
                 /\ After(k) = trace[k].before

\* C7 witness: two extrema calls in a row on a buffer of differing values
C7_Witness ==
    \E k \in 2..Len(trace) :
        /\ trace[k].op = "extrema" /\ trace[k - 1].op = "extrema"
        /\ trace[k - 1].before.minmax.none
        /\ Cardinality(Range(trace[k].before.data)) > 1

\* C8: scale(1.0) leaves every buffer element and the extrema cache as
\* they were, with the cache unset or set.
C8_ScaleOneIsIdentity ==
    \A k \in 1..Len(trace) :
        (trace[k].op = "scale" /\ trace[k].factor = 1) =>
            After(k) = trace[k].before

\* C8 witness: scale(1.0) was called on a non-zero buffer once with the
\* cache unset and once with the cache set
C8_Witness ==
    /\ \E k \in 1..Len(trace) :
        /\ trace[k].op = "scale" /\ trace[k].factor = 1
        /\ trace[k].before.minmax.none
        /\ Range(trace[k].before.data) \ {0} # {}
    /\ \E k \in 1..Len(trace) :
        /\ trace[k].op = "scale" /\ trace[k].factor = 1
        /\ ~trace[k].before.minmax.none

\* C9: scale(a) followed by scale(b) gives the buffer and the cache that
\* one scale(a * b) gives from the same Phantom.
C9_ScaleComposes ==
    \A k \in 1..(Len(trace) - 1) :
        (trace[k].op = "scale" /\ trace[k + 1].op = "scale") =>
            After(k + 1)
                = scale(trace[k].before, trace[k].factor * trace[k + 1].factor)

\* C9 witness: scale(2) and scale(-1) were called in a row on a Phantom
\* with a set cache and a buffer of differing values
C9_Witness ==
    \E k \in 1..(Len(trace) - 1) :
        /\ trace[k].op = "scale" /\ trace[k].factor = 2
        /\ trace[k + 1].op = "scale" /\ trace[k + 1].factor = -1
        /\ ~trace[k].before.minmax.none
        /\ Cardinality(Range(trace[k].before.data)) > 1

-----------------------------------------------------------------------------
(* The size of the buffer on canvases of any u32 size (phantom.rs:79) *)

\* u32 canvas dimensions, small and large
Sizes == {0, 1, 2, 3, 255, 256, 65535, 65536, 65537, 2147483647}

InitAlloc ==
    /\ nx \in Sizes
    /\ ny \in Sizes
    /\ shapes = <<>>
    /\ build \in Builds
    /\ pc = "new"
    /\ canvas = <<>>
    /\ buflen = WrapU32(0)
    /\ data = <<>>
    /\ minmax = None
    /\ si = 1
    /\ x = 0
    /\ y = 0
    /\ hits = 0
    /\ trace = <<>>

\* vec![0.0; (nx * ny) as usize] with no shape to draw: the buffer is
\* buflen zeros and is not held in data
Allocate ==
    /\ pc = "new"
    /\ LET m == MulU32(WrapU32(nx), WrapU32(ny))
       IN  /\ ~(m.overflow /\ build = "debug")
           /\ buflen' = m.val
    /\ pc' = "allocated"
    /\ UNCHANGED <<nx, ny, shapes, build, canvas, data, minmax, si, x, y,
                   hits, trace>>

\* nx * ny overflows in a build with overflow checks
AllocateOverflow ==
    /\ pc = "new"
    /\ MulU32(WrapU32(nx), WrapU32(ny)).overflow
    /\ build = "debug"
    /\ pc' = "panic_overflow"
    /\ UNCHANGED <<nx, ny, shapes, build, canvas, buflen, data, minmax, si,
                   x, y, hits, trace>>

NextAlloc ==
    \/ Allocate
    \/ AllocateOverflow

SpecAlloc == InitAlloc /\ [][NextAlloc]_vars

\* C10 (as claimed): for all u32 nx and ny the multiplication nx * ny
\* neither overflows nor wraps, and the buffer has exactly nx*ny elements,
\* the mathematical product.
C10_BufferLenIsProduct ==
    /\ pc # "panic_overflow"
    /\ pc = "allocated" =>
         MulDigits(Digits(WrapU32(nx)), Digits(WrapU32(ny)), 0, 0)
             = Digits(buflen) \o <<0, 0, 0, 0>>

-----------------------------------------------------------------------------
(* Degenerate canvases and shapes, under Spec *)

\* C11 (as claimed, stated for shapes of positive extent): on a canvas with
\* nx = 0 or ny = 0 the rendering of any list of shapes neither panics nor indexes out of bounds, and the buffer
\* it returns is empty.
C11_ZeroCanvasRenders ==
    ((nx = 0 \/ ny = 0)
        /\ \A i \in 1..Len(shapes) : PositiveExtent(shapes[i])) =>
        /\ pc \notin Panics
        /\ pc = "done" => DOMAIN data = {}

\* the projected shape lies beyond one side of the canvas [0, nx) x [0, ny)
\* with all of its extent, and does not touch that side
OutsideCanvas(c) ==
    LET E == Extent8(c)
    IN  \/ \A p \in E : p[1] < 0
        \/ \A p \in E : p[1] > 8 * nx
        \/ \A p \in E : p[2] < 0
        \/ \A p \in E : p[2] > 8 * ny

\* C12 (as claimed, stated on canvases that hold a pixel and shapes of
\* positive extent): while the rasterizer scans a shape that lies entirely
\* outside the canvas it does not fail and adds to no buffer entry.
C12_OutsideShapeAddsNothing ==
    (/\ Regular
     /\ pc \in {"pixel"} \cup Panics
     /\ si <= Len(canvas)
     /\ OutsideCanvas(canvas[si])) =>
        (pc = "pixel" /\ ~Inside(canvas[si], x, y))

\* the shape has a zero extent: an ellipse with a zero axis, a rectangle
\* with a zero side
ZeroExtent(s) ==
    IF s.kind = "Ellipse" THEN s.major_axis2 = 0 \/ s.minor_axis2 = 0
    ELSE s.width2 = 0 \/ s.height2 = 0

\* C13 (as claimed, stated on canvases that hold a pixel): while the
\* rasterizer scans a shape with a zero extent, ellipse or rectangle, it
\* does not fail and inside is false at every pixel it tests.
C13_ZeroExtentNeverInside ==
    (/\ nx >= 1 /\ ny >= 1
     /\ pc \in {"pixel"} \cup Panics
     /\ si <= Len(canvas)
     /\ ZeroExtent(shapes[si])) =>
        (pc = "pixel" /\ ~Inside(canvas[si], x, y))

\* the shape is an ellipse with a negative axis
NegativeAxis(s) ==
    s.kind = "Ellipse" /\ (s.major_axis2 < 0 \/ s.minor_axis2 < 0)

\* C14 (as claimed): while the rasterizer scans an ellipse with a negative
\* major or minor axis it does not fail and adds to no buffer entry.
C14_NegativeAxisAddsNothing ==
    (/\ pc \in {"pixel"} \cup Panics
     /\ si <= Len(canvas)
     /\ NegativeAxis(shapes[si])) =>
        (pc = "pixel" /\ ~Inside(canvas[si], x, y))

-----------------------------------------------------------------------------
(* The geometry of the projection, under Spec *)

\* Shape::ellipse(0, 0, 0.5, 0.5, 0, 1.0)
UnitCircle == Ellipse(0, 0, 1, 1, 0, 1)

-----------------------------------------------------------------------------
(* f64 arithmetic, bit for bit.  A natural number of any size is a sequence *)
(* of limbs below Radix, least significant first, without leading zeros;   *)
(* <<>> is 0.  An f64 is [sign, man, exp] with the value                   *)
(* sign * man * 2^exp, man of exactly 53 bits, or man = <<>> for zero.     *)
(* Results are rounded to nearest, ties to even, as IEEE 754 binary64      *)
(* does; exponents stay far from the limits of the format.                 *)

\* one limb holds 12 bits
LimbBits == 12
Radix == 4096

RECURSIVE Pow2(_)
Pow2(n) == IF n = 0 THEN 1 ELSE 2 * Pow2(n - 1)

RECURSIVE BigNorm(_)
\* the limbs without leading zeros
BigNorm(a) ==
    IF a = <<>> THEN <<>>
    ELSE IF a[Len(a)] = 0 THEN BigNorm(SubSeq(a, 1, Len(a) - 1))
    ELSE a

RECURSIVE BigOfInt(_)
BigOfInt(n) ==
    IF n = 0 THEN <<>> ELSE <<n % Radix>> \o BigOfInt(n \div Radix)

\* limb i of a, 0 beyond its length
BigLimb(a, i) == IF i <= Len(a) THEN a[i] ELSE 0

RECURSIVE BigCmpAt(_, _, _)
BigCmpAt(a, b, i) ==
    IF i = 0 THEN 0
    ELSE IF a[i] < b[i] THEN -1
    ELSE IF a[i] > b[i] THEN 1
    ELSE BigCmpAt(a, b, i - 1)

\* -1, 0, 1 as a < b, a = b, a > b
BigCmp(a, b) ==
    IF Len(a) < Len(b) THEN -1
    ELSE IF Len(a) > Len(b) THEN 1
    ELSE BigCmpAt(a, b, Len(a))

RECURSIVE BigAddAt(_, _, _, _)
BigAddAt(a, b, i, c) ==
    IF i > Len(a) /\ i > Len(b)
    THEN IF c = 0 THEN <<>> ELSE <<c>>
    ELSE LET t == BigLimb(a, i) + BigLimb(b, i) + c
         IN  <<t % Radix>> \o BigAddAt(a, b, i + 1, t \div Radix)

BigAdd(a, b) == BigAddAt(a, b, 1, 0)

RECURSIVE BigSubAt(_, _, _, _)
BigSubAt(a, b, i, c) ==
    IF i > Len(a) THEN <<>>
    ELSE LET t == a[i] - BigLimb(b, i) - c
         IN  IF t < 0 THEN <<t + Radix>> \o BigSubAt(a, b, i + 1, 1)
             ELSE <<t>> \o BigSubAt(a, b, i + 1, 0)

\* a - b for a >= b
BigSub(a, b) == BigNorm(BigSubAt(a, b, 1, 0))

RECURSIVE BigMulSmallAt(_, _, _, _)
BigMulSmallAt(a, d, i, c) ==
    IF i > Len(a)
    THEN IF c = 0 THEN <<>> ELSE <<c>>
    ELSE LET t == a[i] * d + c
         IN  <<t % Radix>> \o BigMulSmallAt(a, d, i + 1, t \div Radix)

\* a * d for a limb d
BigMulSmall(a, d) == IF d = 0 THEN <<>> ELSE BigMulSmallAt(a, d, 1, 0)

RECURSIVE BigMul(_, _)
BigMul(a, b) ==
    IF a = <<>> \/ b = <<>> THEN <<>>
    ELSE LET rest == BigMul(a, Tail(b))
         IN  BigAdd(BigMulSmall(a, Head(b)),
                    IF rest = <<>> THEN <<>> ELSE <<0>> \o rest)

\* 2^n
BigPow2(n) ==
    [i \in 1..(n \div LimbBits + 1) |->
        IF i = n \div LimbBits + 1 THEN Pow2(n % LimbBits) ELSE 0]

RECURSIVE BitLen(_)
BitLen(n) == IF n = 0 THEN 0 ELSE 1 + BitLen(n \div 2)

\* the number of bits of a
BigBitLen(a) ==
    IF a = <<>> THEN 0 ELSE LimbBits * (Len(a) - 1) + BitLen(a[Len(a)])

\* bit i of a, bit 0 the least significant
BigBit(a, i) ==
    (BigLimb(a, i \div LimbBits + 1) \div Pow2(i % LimbBits)) % 2

\* a is odd
BigOdd(a) == a # <<>> /\ a[1] % 2 = 1

\* floor(a / 2^d)
BigShr(a, d) ==
    LET w == d \div LimbBits
        b == d % LimbBits
    IN  IF Len(a) <= w THEN <<>>
        ELSE BigNorm([i \in 1..(Len(a) - w) |->
                 (a[i + w] \div Pow2(b))
                     + (BigLimb(a, i + w + 1) % Pow2(b)) * Pow2(LimbBits - b)])

\* the d lowest bits of a are zero
BigLowZero(a, d) ==
    \A i \in 1..Len(a) :
        /\ i <= d \div LimbBits => a[i] = 0
        /\ i = d \div LimbBits + 1 => a[i] % Pow2(d % LimbBits) = 0

RECURSIVE DigitSearch(_, _, _, _)
\* the largest limb t in lo..hi with t * d <= r
DigitSearch(r, d, lo, hi) ==
    IF lo = hi THEN lo
    ELSE LET mid == (lo + hi + 1) \div 2
         IN  IF BigCmp(BigMulSmall(d, mid), r) <= 0
             THEN DigitSearch(r, d, mid, hi)
             ELSE DigitSearch(r, d, lo, mid - 1)

RECURSIVE BigDivModAt(_, _, _, _)
\* long division of the limbs i..1 of n by d, with the remainder r of the
\* limbs above i; the quotient keeps i limbs
BigDivModAt(n, d, i, r) ==
    IF i = 0 THEN [quot |-> <<>>, rem |-> r]
    ELSE LET r2 == BigNorm(<<n[i]>> \o r)
             t == DigitSearch(r2, d, 0, Radix - 1)
             r3 == BigSub(r2, BigMulSmall(d, t))
         IN  IF BigCmp(r3, d) < 0
             THEN LET rest == BigDivModAt(n, d, i - 1, r3)
                  IN  [quot |-> rest.quot \o <<t>>, rem |-> rest.rem]
             ELSE [quot |-> <<>>, rem |-> r3]

\* quotient and remainder of n by d, d > 0
BigDivMod(n, d) ==
    LET qr == BigDivModAt(n, d, Len(n), <<>>)
    IN  [quot |-> BigNorm(qr.quot), rem |-> qr.rem]

\* the bits of an f64 mantissa
ManBits == 53

F64Zero == [sign |-> 1, man |-> <<>>, exp |-> 0]

\* the f64 nearest to sign * m * 2^e, or to a value between that and
\* sign * (m + 1) * 2^e where sticky: ties go to the even mantissa
F64Round(sign, m, e, sticky) ==
    LET len == BigBitLen(m)
    IN  IF m = <<>> THEN F64Zero
        ELSE IF len <= ManBits
        THEN [sign |-> sign, man |-> BigMul(m, BigPow2(ManBits - len)),
              exp |-> e - (ManBits - len)]
        ELSE LET d == len - ManBits
                 q0 == BigShr(m, d)
                 up == /\ BigBit(m, d - 1) = 1
                       /\ \/ ~BigLowZero(m, d - 1)
                          \/ sticky
                          \/ BigOdd(q0)
                 q == IF up THEN BigAdd(q0, <<1>>) ELSE q0
             IN  IF BigBitLen(q) > ManBits
                 THEN [sign |-> sign, man |-> BigPow2(ManBits - 1),
                       exp |-> e + d + 1]
                 ELSE [sign |-> sign, man |-> q, exp |-> e + d]

\* the f64 of the integer n scaled by 2^-k: exact for |n| < 2^31
F64OfDyadic(n, k) == F64Round(IF n < 0 THEN -1 ELSE 1, BigOfInt(Abs(n)), -k, FALSE)

F64Neg(a) == [a EXCEPT !.sign = -a.sign]

\* a * b
F64Mul(a, b) ==
    IF a.man = <<>> \/ b.man = <<>> THEN F64Zero
    ELSE F64Round(a.sign * b.sign, BigMul(a.man, b.man), a.exp + b.exp, FALSE)

\* a + b.  An operand 56 or more binary places below the other does not
\* reach half a unit in the last place of the other, and the other is the sum.
F64Add(a, b) ==
    IF a.man = <<>> THEN b
    ELSE IF b.man = <<>> THEN a
    ELSE LET hi == IF a.exp >= b.exp THEN a ELSE b
             lo == IF a.exp >= b.exp THEN b ELSE a
             gap == hi.exp - lo.exp
         IN  IF gap >= ManBits + 3 THEN hi
             ELSE LET mh == BigMul(hi.man, BigPow2(gap))
                      c == BigCmp(mh, lo.man)
                  IN  IF hi.sign = lo.sign
                      THEN F64Round(hi.sign, BigAdd(mh, lo.man), lo.exp, FALSE)
                      ELSE IF c = 0 THEN F64Zero
                      ELSE IF c > 0
                      THEN F64Round(hi.sign, BigSub(mh, lo.man), lo.exp, FALSE)
                      ELSE F64Round(lo.sign, BigSub(lo.man, mh), lo.exp, FALSE)

\* a - b
F64Sub(a, b) == F64Add(a, F64Neg(b))

\* a / b for b # 0
F64Div(a, b) ==
    IF a.man = <<>> THEN F64Zero
    ELSE LET qr == BigDivMod(BigMul(a.man, BigPow2(ManBits + 4)), b.man)
         IN  F64Round(a.sign * b.sign, qr.quot,
                      a.exp - (ManBits + 4) - b.exp, qr.rem # <<>>)

\* a <= b
F64Le(a, b) ==
    LET mag(u, v) ==   \* -1, 0, 1 as |u| < |v|, |u| = |v|, |u| > |v|
            IF u.man = <<>> /\ v.man = <<>> THEN 0
            ELSE IF u.man = <<>> THEN -1
            ELSE IF v.man = <<>> THEN 1
            ELSE IF u.exp < v.exp THEN -1
            ELSE IF u.exp > v.exp THEN 1
            ELSE BigCmp(u.man, v.man)
        sa == IF a.man = <<>> THEN 0 ELSE a.sign
        sb == IF b.man = <<>> THEN 0 ELSE b.sign
    IN  IF sa # sb THEN sa < sb
        ELSE IF sa = 0 THEN TRUE
        ELSE IF sa = 1 THEN mag(a, b) <= 0
        ELSE mag(a, b) >= 0

-----------------------------------------------------------------------------
(* Ellipse::on_canvas and EllipseOnCanvas::inside in f64, for the angles 0  *)
(* and 180 (shape/ellipse.rs:52-84, 143-149)                                *)

F64One == F64OfDyadic(1, 0)
F64Two == F64OfDyadic(2, 0)

\* PI / 180.0 = 0x1.1df46a2529d39p-6, the factor of f64::to_radians
RadsPerDeg == [sign |-> 1, man |-> <<3385, 1321, 1698, 3572, 17>>, exp |-> -58]

\* std::f64::consts::PI = 0x1.921fb54442d18p+1
PiF64 == [sign |-> 1, man |-> <<3352, 1090, 2900, 543, 25>>, exp |-> -51]

\* theta.to_radians() for theta in degrees
ToRadians(theta) == F64Mul(F64OfDyadic(theta, 0), RadsPerDeg)

\* f64::sin at 0 and at PI: sin(PI) = 0x1.1a62633145c07p-53, not 0
SinF64(r) ==
    CASE r.man = <<>> -> F64Zero
      [] r = PiF64 ->
           [sign |-> 1, man |-> <<3079, 325, 1587, 2658, 17>>, exp |-> -105]

\* f64::cos at 0 and at PI
CosF64(r) ==
    CASE r.man = <<>> -> F64One
      [] r = PiF64 -> F64Neg(F64One)

\* x.powi(2)
F64Sq(a) == F64Mul(a, a)

\* Ellipse::on_canvas, the fields that inside reads (the bounding box is
\* not carried)
EllipseOnCanvasF64(e, w, h) ==
    LET theta == ToRadians(e.theta)
        nx_half == F64Div(F64OfDyadic(w, 0), F64Two)
        ny_half == F64Div(F64OfDyadic(h, 0), F64Two)
        n_min == IF F64Le(nx_half, ny_half) THEN nx_half ELSE ny_half
        major_axis == F64Mul(F64OfDyadic(e.major_axis2, 1), n_min)
        minor_axis == F64Mul(F64OfDyadic(e.minor_axis2, 1), n_min)
    IN  [center_x |-> F64Add(F64Mul(F64OfDyadic(e.center_x2, 1), n_min), nx_half),
         center_y |-> F64Add(F64Mul(F64OfDyadic(e.center_y2, 1), n_min), ny_half),
         major_axis_squared |-> F64Sq(major_axis),
         minor_axis_squared |-> F64Sq(minor_axis),
         theta_sin |-> SinF64(theta),
         theta_cos |-> CosF64(theta)]

\* inside with < where EllipseOnCanvas::inside compares with <=
EllipseInsideF64_Strict(c, px, py) ==
    LET x_diff == F64Sub(F64OfDyadic(px, 0), c.center_x)
        y_diff == F64Sub(F64OfDyadic(py, 0), c.center_y)
        p == F64Add(F64Mul(c.theta_cos, x_diff), F64Mul(c.theta_sin, y_diff))
        q == F64Sub(F64Mul(c.theta_sin, x_diff), F64Mul(c.theta_cos, y_diff))
    IN  ~F64Le(F64One,
               F64Add(F64Div(F64Sq(p), c.major_axis_squared),
                      F64Div(F64Sq(q), c.minor_axis_squared)))

\* EllipseOnCanvas::inside for non-zero axes
EllipseInsideF64(c, px, py) ==
    LET x_diff == F64Sub(F64OfDyadic(px, 0), c.center_x)
        y_diff == F64Sub(F64OfDyadic(py, 0), c.center_y)
        p == F64Add(F64Mul(c.theta_cos, x_diff), F64Mul(c.theta_sin, y_diff))
        q == F64Sub(F64Mul(c.theta_sin, x_diff), F64Mul(c.theta_cos, y_diff))
    IN  F64Le(F64Add(F64Div(F64Sq(p), c.major_axis_squared),
                     F64Div(F64Sq(q), c.minor_axis_squared)),
              F64One)

\* canvas sizes, centres and axes (scale 2) of the ellipses of SpecHalfTurn
HalfTurnSizes == {MaxN, MaxN + 1}
HalfTurnCentres2 == {-2, -1, 0}
HalfTurnAxes2 == {1, 2}

\* an ellipse and the same ellipse turned by 180 degrees, a canvas, and a
\* pixel (x, y) of the canvas
InitHalfTurn ==
    /\ nx \in HalfTurnSizes
    /\ ny \in HalfTurnSizes
    /\ \E cx \in HalfTurnCentres2, cy \in HalfTurnCentres2,
          a \in HalfTurnAxes2, b \in HalfTurnAxes2 :
           shapes = <<Ellipse(cx, cy, a, b, 0, 1), Ellipse(cx, cy, a, b, 180, 1)>>
    /\ x \in 0..(nx - 1)
    /\ y \in 0..(ny - 1)
    /\ build \in {"release"}
    /\ pc = "new"
    /\ canvas = <<>>
    /\ buflen = WrapU32(0)
    /\ data = <<>>
    /\ minmax = None
    /\ si = 1
    /\ hits = 0
    /\ trace = <<>>

\* both ellipses are projected
ProjectHalfTurn ==
    /\ pc = "new"
    /\ canvas' = [i \in 1..2 |-> EllipseOnCanvasF64(shapes[i], nx, ny)]
    /\ pc' = "projected"
    /\ UNCHANGED <<nx, ny, shapes, build, buflen, data, minmax, si, x, y,
                   hits, trace>>

\* inside(x, y) of both projected ellipses
TestHalfTurn ==
    /\ pc = "projected"
    /\ data' = [i \in 1..2 |-> EllipseInsideF64(canvas[i], x, y)]
    /\ pc' = "tested"
    /\ UNCHANGED <<nx, ny, shapes, build, canvas, buflen, minmax, si, x, y,
                   hits, trace>>

NextHalfTurn ==
    \/ ProjectHalfTurn
    \/ TestHalfTurn

SpecHalfTurn == InitHalfTurn /\ [][NextHalfTurn]_vars

\* C16 (as claimed): inside(x, y) of an ellipse projected with theta equals
\* inside(x, y) of the same ellipse projected with theta + 180 degrees, at
\* every pixel of every canvas.
C16_HalfTurnSameInside == pc = "tested" => data[1] = data[2]

-----------------------------------------------------------------------------
(* Phantom::into_vec_u8 (phantom.rs:69-71).  The buffer of this section      *)
(* holds f64 values of any kind: Fin(v) with v counting quarters (v = 4 * the *)
(* value), PosInf, NegInf or NaN.  Such buffers come from Phantom::new with   *)
(* shapes of those intensities and from Phantom::scale.                      *)

\* the integer part of v quarters, rounded toward zero
TruncQuarters(v) == IF v >= 0 THEN v \div 4 ELSE -((-v) \div 4)

\* `x as u8` of an f64 x: the integer part, saturated to 0..255; NaN gives 0
AsU8(a) ==
    IF a.class = "nan" THEN 0
    ELSE IF a.class = "inf" THEN (IF a.v < 0 THEN 0 ELSE 255)
    ELSE Max(0, Min(255, TruncQuarters(a.v)))

\* Phantom::into_vec_u8: the Vec<u8> returned
into_vec_u8(self) == [i \in DOMAIN self.data |-> AsU8(self.data[i])]

\* the f64 values of the buffers of SpecNarrow: -300, -1, -0.25, 0, 0.75,
\* 1.5, 255, 255.75, 256, 300, the infinities and NaN
NarrowValues ==
    {Fin(-1200), Fin(-4), Fin(-1), Fin(0), Fin(3), Fin(6), Fin(1020),
     Fin(1023), Fin(1024), Fin(1200), PosInf, NegInf, NaN}

InitNarrow ==
    /\ nx \in 0..MaxLen
    /\ ny = 1
    /\ shapes = <<>>
    /\ build \in Builds
    /\ pc = "done"
    /\ canvas = <<>>
    /\ buflen = WrapU32(nx)
    /\ data \in [0..(nx - 1) -> NarrowValues]
    /\ minmax = None
    /\ si = 1
    /\ x = 0
    /\ y = 0
    /\ hits = 0
    /\ trace = <<>>

\* into_vec_u8 consumes the Phantom; data becomes the Vec<u8> returned
IntoVecU8 ==
    /\ pc = "done"
    /\ data' = into_vec_u8(Self)
    /\ pc' = "consumed"
    /\ trace' = Append(trace, [op |-> "into_vec_u8", factor |-> 0,
                               before |-> Self, ret |-> <<>>])
    /\ UNCHANGED <<nx, ny, shapes, build, canvas, buflen, minmax, si, x, y,
                   hits>>

NextNarrow == IntoVecU8

SpecNarrow == InitNarrow /\ [][NextNarrow]_vars

-----------------------------------------------------------------------------
(* Properties of into_vec_u8, under SpecNarrow *)

\* C18: into_vec_u8 keeps the length and the order of the buffer and casts
\* without clamping: a finite element within [0, 255] becomes its integer
\* part, and a finite element below 0 or above 255 becomes its integer part
\* wrapped to 8 bits, not 0 or 255.
C18_NarrowingCastWraps ==
    pc = "consumed" =>
        LET before == trace[1].before.data
        IN  /\ DOMAIN data = DOMAIN before
            /\ \A i \in DOMAIN before :
                   before[i].class = "finite" =>
                       data[i] = TruncQuarters(before[i].v) % 256

-----------------------------------------------------------------------------
(* The scale of the projection, under Spec *)

\* how far an ellipse projected with theta = 0 reaches from its centre,
\* scale 4: <<left and right, above and below>>.  With theta = 0 inside is
\* x_diff^2 / major_axis_squared + y_diff^2 / minor_axis_squared <= 1, so
\* the furthest points inside on the lines through the centre lie
\* sqrt(major_axis_squared) and sqrt(minor_axis_squared) away from it.
Reach4(c) == <<Sqrt(c.major_axis_squared16), Sqrt(c.minor_axis_squared16)>>

\* the ellipses with theta = 0 and positive axes among the projected shapes
UprightEllipses ==
    {i \in 1..Len(canvas) : /\ shapes[i].kind = "Ellipse"
                            /\ shapes[i].theta = 0
                            /\ PositiveExtent(shapes[i])}

\* C19: major_axis and minor_axis are full axis lengths: an ellipse projected
\* with theta = 0 reaches major_axis * s / 2 pixels left and right of its
\* centre and minor_axis * s / 2 pixels above and below it, s = min(nx, ny)/2.
\* (Scale 4: major_axis * s / 2 is major_axis2 * NMin2 / 2.)
C19_AxesAreFullLengths ==
    \A i \in UprightEllipses :
        LET r == Reach4(canvas[i].kind)
        IN  /\ 2 * r[1] = shapes[i].major_axis2 * NMin2(nx, ny)
            /\ 2 * r[2] = shapes[i].minor_axis2 * NMin2(nx, ny)

\* the centre of a projected rectangle, scale 8: the midpoint of its
\* corners a and c = b + bc
RectCentre8(k) ==
    <<(k.a8[1] + k.b8[1] + k.bc8[1]) \div 2,
      (k.a8[2] + k.b8[2] + k.bc8[2]) \div 2>>

\* the extents of a rectangle projected with theta = 0, scale 8: the x
\* extent of its side bc and the y extent of its side ab
RectSize8(k) == <<k.bc8[1], k.ab8[2]>>

\* C20: the projection with theta = 0 of an ellipse or of a rectangle scales
\* the x extent and the y extent by the same s = min(nx, ny) / 2 and maps the
\* centre (cx, cy) to (cx * s + nx / 2, cy * s + ny / 2); equal normalized
\* extents give equal pixel extents, on a square canvas or not.  The extents
\* of an ellipse are measured from its centre (the axis arguments as the
\* code takes them), those of a rectangle from side to side, on the grid of
\* the model, where the f64 arithmetic is exact.
C20_UniformScaleAndShift ==
    \A i \in 1..Len(canvas) :
        shapes[i].theta = 0 =>
            LET s2 == Min(nx, ny)
                sh == shapes[i]
                k == canvas[i].kind
            IN  IF sh.kind = "Ellipse"
                THEN /\ k.center_x4 = sh.center_x2 * s2 + 2 * nx
                     /\ k.center_y4 = sh.center_y2 * s2 + 2 * ny
                     /\ Reach4(k) = <<Abs(sh.major_axis2) * s2,
                                      Abs(sh.minor_axis2) * s2>>
                     /\ sh.major_axis2 = sh.minor_axis2 =>
                            Reach4(k)[1] = Reach4(k)[2]
                ELSE /\ RectCentre8(k) = <<2 * sh.center_x2 * s2 + 4 * nx,
                                           2 * sh.center_y2 * s2 + 4 * ny>>
                     /\ RectSize8(k) = <<2 * sh.width2 * s2,
                                         2 * sh.height2 * s2>>
                     /\ k.bc8[2] = 0 /\ k.ab8[1] = 0
                     /\ sh.width2 = sh.height2 =>
                            RectSize8(k)[1] = RectSize8(k)[2]

\* a 4 by 2 canvas rendered with an ellipse centred off the middle at
\* (0.5, 0) and a square of side 0.5: the ellipse centre lies at pixel
\* (2.5, 1) and the square is 0.5 pixel wide and high
C20_Witness ==
    /\ pc = "done"
    /\ nx = 4 /\ ny = 2
    /\ shapes = <<Ellipse(1, 0, 1, 2, 0, 1), Rectangle(0, 0, 1, 1, 0, 3)>>
    /\ canvas[1].kind.center_x4 = 10 /\ canvas[1].kind.center_y4 = 4
    /\ RectSize8(canvas[2].kind) = <<4, 4>>

-----------------------------------------------------------------------------
(* The containment tests, under Spec *)

\* the points the containment tests are compared on: every pixel of the
\* canvas and a margin of one pixel around it
TestPoints == ((-1)..(nx + 1)) \X ((-1)..(ny + 1))

\* the dot product of two vectors
Dot(u, v) == u[1] * v[1] + u[2] * v[2]

\* the corners A, B, C of a rectangle with theta = 0 as Rectangle::on_canvas
\* projects them (lower left, upper left, upper right), scale 8
CornersABC(sh) ==
    LET s2 == Min(nx, ny)
    IN  <<<<(2 * sh.center_x2 - sh.width2) * s2 + 4 * nx,
            (2 * sh.center_y2 - sh.height2) * s2 + 4 * ny>>,
          <<(2 * sh.center_x2 - sh.width2) * s2 + 4 * nx,
            (2 * sh.center_y2 + sh.height2) * s2 + 4 * ny>>,
          <<(2 * sh.center_x2 + sh.width2) * s2 + 4 * nx,
            (2 * sh.center_y2 + sh.height2) * s2 + 4 * ny>>>>

\* C21 at the point (px, py) for the projected rectangle i: inside is the
\* test 0 <= AB.AM <= AB.AB and 0 <= BC.BM <= BC.BC, and, the width and the
\* height being positive, the test ax <= x <= ax + width * s and
\* ay <= y <= ay + height * s with the edges included
RectangleTestAgrees(i, px, py) ==
    LET sh == shapes[i]
        s2 == Min(nx, ny)
        cs == CornersABC(sh)
        A == cs[1]
        B == cs[2]
        C == cs[3]
        AB == <<B[1] - A[1], B[2] - A[2]>>
        BC == <<C[1] - B[1], C[2] - B[2]>>
        AM == <<8 * px - A[1], 8 * py - A[2]>>
        BM == <<8 * px - B[1], 8 * py - B[2]>>
        in == Inside(canvas[i], px, py)
    IN  /\ in <=> /\ 0 <= Dot(AB, AM) /\ Dot(AB, AM) <= Dot(AB, AB)
                  /\ 0 <= Dot(BC, BM) /\ Dot(BC, BM) <= Dot(BC, BC)
        /\ in <=> /\ A[1] <= 8 * px /\ 8 * px <= A[1] + 2 * sh.width2 * s2
                  /\ A[2] <= 8 * py /\ 8 * py <= A[2] + 2 * sh.height2 * s2

\* the projected rectangles with theta = 0 and positive width and height
UprightRectangles ==
    {i \in 1..Len(canvas) : /\ shapes[i].kind = "Rectangle"
                            /\ shapes[i].theta = 0
                            /\ PositiveExtent(shapes[i])}

-----------------------------------------------------------------------------
(* The f64 containment test of the ellipse against the exact quadratic      *)
(* form, under SpecHalfTurn                                                  *)

\* the upright ellipse of SpecHalfTurn in exact arithmetic, scale 4: its
\* projected centre, its canvas-scaled axes a and b, and the offsets dx and
\* dy of the pixel (x, y) from the centre
ExactUpright ==
    LET e == shapes[1]
        s2 == Min(nx, ny)
        cx4 == e.center_x2 * s2 + 2 * nx
        cy4 == e.center_y2 * s2 + 2 * ny
    IN  [cx4 |-> cx4, cy4 |-> cy4,
         a4 |-> e.major_axis2 * s2, b4 |-> e.minor_axis2 * s2,
         dx4 |-> 4 * x - cx4, dy4 |-> 4 * y - cy4]

\* C22: for theta = 0 and positive axes a and b, the f64 result of
\* EllipseOnCanvas::inside(x, y) is true exactly when
\* dx^2 * b^2 + dy^2 * a^2 <= a^2 * b^2, the boundary included: the points
\* (cx +- a, cy) and (cx, cy +- b) are inside.
C22_EllipseInsideIsQuadraticForm ==
    pc = "tested" =>
        LET u == ExactUpright
        IN  /\ data[1] <=>
                   u.dx4 * u.dx4 * u.b4 * u.b4 + u.dy4 * u.dy4 * u.a4 * u.a4
                       <= u.a4 * u.a4 * u.b4 * u.b4
            /\ (Abs(u.dx4) = u.a4 /\ u.dy4 = 0) => data[1]
            /\ (u.dx4 = 0 /\ Abs(u.dy4) = u.b4) => data[1]

\* the pixel tested is the point (cx + a, cy) of an ellipse with unequal
\* axes, and it is inside
C22_Witness ==
    /\ pc = "tested"
    /\ ExactUpright.dx4 = ExactUpright.a4
    /\ ExactUpright.dy4 = 0
    /\ ExactUpright.a4 # ExactUpright.b4
    /\ data[1]

-----------------------------------------------------------------------------
(* The dispatch over the shape kinds, under Spec *)

\* the projected shape i wraps the projection of its own variant and keeps
\* the intensity
DispatchKeeps(i) ==
    /\ canvas[i].intensity = shapes[i].intensity
    /\ Intensity(canvas[i]) = shapes[i].intensity
    /\ canvas[i].kind.kind = shapes[i].kind
    /\ shapes[i].kind = "Ellipse" =>
           canvas[i].kind = EllipseOnCanvas(shapes[i], nx, ny)
    /\ shapes[i].kind = "Rectangle" =>
           canvas[i].kind = RectangleOnCanvas(shapes[i], nx, ny)
    /\ BBox(canvas[i]) = canvas[i].kind.bbox

\* inside of the projected shape i at (px, py) is inside of its variant
DispatchInside(i, px, py) ==
    Inside(canvas[i], px, py) =
        IF shapes[i].kind = "Ellipse"
        THEN EllipseInside(canvas[i].kind, px, py)
        ELSE RectangleInside(canvas[i].kind, px, py)

\* C23: on_canvas keeps the variant and the intensity of every shape, and
\* ShapeOnCanvas::inside and ShapeOnCanvas::bounding_box return what the
\* wrapped variant returns: at every test point once the shapes are
\* projected, and at every pixel the rasterizer tests.
C23_DispatchIsTransparent ==
    /\ (pc = "shape" /\ si = 1) =>
           \A i \in 1..Len(canvas) :
               /\ DispatchKeeps(i)
               /\ \A p \in TestPoints : DispatchInside(i, p[1], p[2])
    /\ pc = "pixel" => DispatchInside(si, x, y)

\* an ellipse and a rectangle of different intensities are projected and
\* the rasterizer finds a pixel inside the rectangle
C23_Witness ==
    /\ pc = "pixel"
    /\ Len(canvas) = 2
    /\ canvas[1].kind.kind = "Ellipse"
    /\ canvas[2].kind.kind = "Rectangle"
    /\ Intensity(canvas[1]) # Intensity(canvas[2])
    /\ si = 2
    /\ Inside(canvas[si], x, y)

-----------------------------------------------------------------------------
(* Rectangle::on_canvas in f64, for the angles 0 and 180                     *)
(* (shape/rectangle.rs:46-133), and the turn of a rectangle                  *)

\* Rectangle::on_canvas: the four projected corners (a, b and the locals
\* c_xr, c_yr, d_xr, d_yr) and the sides ab and bc; the bounding box is not
\* carried
RectangleOnCanvasF64(r, w, h) ==
    LET theta == ToRadians(r.theta)
        nx_half == F64Div(F64OfDyadic(w, 0), F64Two)
        ny_half == F64Div(F64OfDyadic(h, 0), F64Two)
        center_x == F64OfDyadic(r.center_x2, 1)
        center_y == F64OfDyadic(r.center_y2, 1)
        width_half == F64Div(F64OfDyadic(r.width2, 1), F64Two)
        height_half == F64Div(F64OfDyadic(r.height2, 1), F64Two)
        \* the values the closures and the corners are made of, each
        \* computed once
        locals ==
            [theta_sin |-> SinF64(theta),
             theta_cos |-> CosF64(theta),
             nx_half |-> nx_half,
             ny_half |-> ny_half,
             n_min |-> IF F64Le(nx_half, ny_half) THEN nx_half ELSE ny_half,
             x_low |-> F64Sub(center_x, width_half),
             x_high |-> F64Add(center_x, width_half),
             y_low |-> F64Sub(center_y, height_half),
             y_high |-> F64Add(center_y, height_half)]
        rotate(v, p) ==
            <<F64Sub(F64Mul(p[1], v.theta_cos), F64Mul(p[2], v.theta_sin)),
              F64Add(F64Mul(p[1], v.theta_sin), F64Mul(p[2], v.theta_cos))>>
        scale_shift(v, p) ==
            <<F64Add(F64Mul(p[1], v.n_min), v.nx_half),
              F64Add(F64Mul(p[2], v.n_min), v.ny_half)>>
        project(v, p) ==
            CHOOSE q \in {scale_shift(v, t) : t \in {rotate(v, p)}} : TRUE
        corners(v) ==
            [a |-> project(v, <<v.x_low, v.y_low>>),
             b |-> project(v, <<v.x_low, v.y_high>>),
             c |-> project(v, <<v.x_high, v.y_high>>),
             d |-> project(v, <<v.x_high, v.y_low>>)]
        on_canvas(k) ==
            [a |-> k.a, b |-> k.b, c |-> k.c, d |-> k.d,
             ab |-> <<F64Sub(k.b[1], k.a[1]), F64Sub(k.b[2], k.a[2])>>,
             bc |-> <<F64Sub(k.c[1], k.b[1]), F64Sub(k.c[2], k.b[2])>>]
    IN  CHOOSE out \in {on_canvas(k) : k \in {corners(v) : v \in {locals}}} : TRUE

\* canvas sizes, centres and side lengths (scale 2) and angles of SpecTurn
TurnSizes == {MaxN, MaxN + 1}
TurnCentres2 == {-1, 0, 1}
TurnSides2 == {1, 2}
TurnThetas == {0, 180}

\* a rectangle and an ellipse with the same centre and angle, and a canvas
InitTurn ==
    /\ nx \in TurnSizes
    /\ ny \in TurnSizes
    /\ \E cx \in TurnCentres2, cy \in TurnCentres2,
          a \in TurnSides2, b \in TurnSides2, th \in TurnThetas :
           shapes = <<Rectangle(cx, cy, a, b, th, 1), Ellipse(cx, cy, a, b, th, 1)>>
    /\ x = 0
    /\ y = 0
    /\ build \in {"release"}
    /\ pc = "new"
    /\ canvas = <<>>
    /\ buflen = WrapU32(0)
    /\ data = <<>>
    /\ minmax = None
    /\ si = 1
    /\ hits = 0
    /\ trace = <<>>

\* both shapes are projected
ProjectTurn ==
    /\ pc = "new"
    /\ canvas' = <<RectangleOnCanvasF64(shapes[1], nx, ny),
                   EllipseOnCanvasF64(shapes[2], nx, ny)>>
    /\ pc' = "projected"
    /\ UNCHANGED <<nx, ny, shapes, build, buflen, data, minmax, si, x, y,
                   hits, trace>>

NextTurn == ProjectTurn

SpecTurn == InitTurn /\ [][NextTurn]_vars

\* |u - v| <= 2^-20 on f64
F64Near(u, v) ==
    LET tol == F64OfDyadic(1, 20)
    IN  F64Le(F64Sub(u, v), tol) /\ F64Le(F64Sub(v, u), tol)

\* the mean of the four projected corners of a rectangle
CornerMean(k) ==
    LET four == F64OfDyadic(4, 0)
        sum(j) == F64Add(F64Add(k.a[j], k.b[j]), F64Add(k.c[j], k.d[j]))
    IN  <<F64Div(sum(1), four), F64Div(sum(2), four)>>

\* (cx * s + nx / 2, cy * s + ny / 2) for the centre of the shape sh, exact
\* on the grid of the model
ClaimedCentre(sh) ==
    <<F64OfDyadic(sh.center_x2 * Min(nx, ny) + 2 * nx, 2),
      F64OfDyadic(sh.center_y2 * Min(nx, ny) + 2 * ny, 2)>>

\* C24 (as claimed): for every theta the centre of a projected rectangle,
\* the mean of its four projected corners, is (cx * s + nx / 2,
\* cy * s + ny / 2), the projected centre of the ellipse with the same
\* (cx, cy): rotation turns a shape about its own centre.  Equality is taken
\* up to 2^-20 pixel.
C24_RotationAboutOwnCentre ==
    pc = "projected" =>
        LET m == CornerMean(canvas[1])
            t == ClaimedCentre(shapes[1])
        IN  /\ F64Near(m[1], t[1]) /\ F64Near(m[2], t[2])
            /\ F64Near(m[1], canvas[2].center_x)
            /\ F64Near(m[2], canvas[2].center_y)

-----------------------------------------------------------------------------
(* Several renderings on one canvas (phantom.rs:18-25, 78-94): a list of    *)
(* shapes is rendered, then a permutation of it, or a prefix of it and then  *)
(* the rest of it.  trace holds the lists rendered before and what became of *)
(* them.                                                                     *)

\* the shapes of SpecOrder: overlapping shapes of integer intensities and a
\* rectangle that covers the normalized square
OrderShapes == Overlays \cup {Rectangle(0, 0, 4, 4, 0, 1)}

\* canvas sizes of SpecOrder
OrderSizes == {0, 2, MaxN}

\* the permutations of the sequence l
Perms(l) ==
    LET n == Len(l)
        bij == {f \in [1..n -> 1..n] : \A i, j \in 1..n : f[i] = f[j] => i = j}
    IN  {[i \in 1..n |-> l[f[i]]] : f \in bij}

InitOrder ==
    /\ nx \in OrderSizes
    /\ ny \in OrderSizes
    /\ shapes \in UNION {Lists(OrderShapes, n) : n \in 0..MaxShapes}
    /\ build \in Builds
    /\ pc = "new"
    /\ canvas = <<>>
    /\ buflen = WrapU32(0)
    /\ data = <<>>
    /\ minmax = None
    /\ si = 1
    /\ x = 0
    /\ y = 0
    /\ hits = 0
    /\ trace = <<>>

\* the rendering that ended, as kept in trace
Rendered(plan, next) ==
    [op |-> "render", plan |-> plan, shapes |-> shapes,
     panicked |-> pc \in Panics, data |-> data, next |-> next]

\* Phantom::new is called again, on the same canvas, with the list l
RenderAgain(l, rec) ==
    /\ shapes' = l
    /\ trace' = Append(trace, rec)
    /\ pc' = "new"
    /\ canvas' = <<>>
    /\ buflen' = WrapU32(0)
    /\ data' = <<>>
    /\ minmax' = None
    /\ si' = 1
    /\ x' = 0
    /\ y' = 0
    /\ hits' = 0
    /\ UNCHANGED <<nx, ny, build>>

\* after the first rendering: a permutation of the list is rendered
RenderPermuted ==
    /\ pc \in {"done"} \cup Panics
    /\ trace = <<>>
    /\ \E l \in Perms(shapes) : RenderAgain(l, Rendered("permute", <<>>))

\* after the first rendering: a prefix of the list is rendered, the rest
\* of the list is kept for the third rendering
RenderPrefix ==
    /\ pc \in {"done"} \cup Panics
    /\ trace = <<>>
    /\ \E k \in 0..Len(shapes) :
           RenderAgain(SubSeq(shapes, 1, k),
                       Rendered("split", SubSeq(shapes, k + 1, Len(shapes))))

\* after the rendering of the prefix: the rest of the list is rendered
RenderRest ==
    /\ pc \in {"done"} \cup Panics
    /\ Len(trace) = 1
    /\ trace[1].plan = "split"
    /\ RenderAgain(trace[1].next, Rendered("split", <<>>))

NextOrder ==
    \/ Next
    \/ RenderPermuted
    \/ RenderPrefix
    \/ RenderRest

SpecOrder == InitOrder /\ [][NextOrder]_vars

-----------------------------------------------------------------------------
(* Properties of repeated renderings, under SpecOrder *)

\* C25: with integer intensities, a permutation of a shape list renders to
\* the same buffer as the list, and the concatenation of two lists renders
\* to the element-wise sum of the buffers of the two lists; a rendering
\* fails exactly when the permutation fails, and the concatenation exactly
\* when one of its parts fails.
C25_OrderIndependentAndAdditive ==
    pc \in {"done"} \cup Panics =>
        /\ (Len(trace) = 1 /\ trace[1].plan = "permute") =>
               /\ trace[1].panicked <=> pc \in Panics
               /\ pc = "done" => data = trace[1].data
        /\ (Len(trace) = 2 /\ trace[1].plan = "split") =>
               /\ trace[1].panicked <=> (trace[2].panicked \/ pc \in Panics)
               /\ ~trace[1].panicked =>
                      /\ DOMAIN trace[1].data = DOMAIN data
                      /\ DOMAIN trace[2].data = DOMAIN data
                      /\ \A i \in DOMAIN data :
                             trace[1].data[i] = trace[2].data[i] + data[i]

\* two overlapping shapes of different intensities were rendered in one
\* order and then in the other, and both renderings wrote the buffer
C25_Witness ==
    /\ pc = "done"
    /\ Len(trace) = 1
    /\ trace[1].plan = "permute"
    /\ Len(shapes) = 2
    /\ shapes[1] # shapes[2]
    /\ trace[1].shapes = <<shapes[2], shapes[1]>>
    /\ \E i \in DOMAIN data : data[i] = 1 /\ trace[1].data[i] = 1
    /\ shapes[1].intensity = 2 /\ shapes[2].intensity = -1

-----------------------------------------------------------------------------
(* The frame of the Phantom operations, under SpecPhantom *)

\* C26: extrema changes no buffer element; scale(factor) multiplies each
\* element by factor, keeps the length and the order of the buffer and
\* leaves an unset cache unset; Phantom::new returns the Phantom with the
\* cache unset.
C26_PhantomFrame ==
    /\ \A k \in 1..Len(trace) :
        LET before == trace[k].before
            after == After(k)
        IN  /\ trace[k].op = "extrema" => after.data = before.data
            /\ trace[k].op = "scale" =>
                   /\ DOMAIN after.data = DOMAIN before.data
                   /\ \A i \in DOMAIN before.data :
                          after.data[i] = before.data[i] * trace[k].factor
                   /\ before.minmax.none => after.minmax.none
    /\ (pc = "done" /\ trace = <<>>) => minmax.none

\* extrema was called on a buffer of differing values, and scale with a
\* factor other than 0 and 1 on such a buffer with the cache unset
C26_Witness ==
    /\ \E k \in 1..Len(trace) :
        /\ trace[k].op = "extrema"
        /\ Cardinality(Range(trace[k].before.data)) > 1
    /\ \E k \in 1..Len(trace) :
        /\ trace[k].op = "scale" /\ trace[k].factor \notin {0, 1}
        /\ trace[k].before.minmax.none
        /\ Cardinality(Range(trace[k].before.data)) > 1

-----------------------------------------------------------------------------
(* The bounding box of the ellipse, under Spec *)

\* clamp(b) of C27 for an axis of dimension l
ClaimedClamp(b, l) == IF b < 0 THEN 0 ELSE IF b >= l THEN l - 1 ELSE b

\* the four bounds before the clamp, for an ellipse with theta = 0:
\* floor(centre - half) and ceil(centre + half) on both axes, the half
\* extents as on_canvas computes them (ellipse.rs:79-84)
RawBounds(e) ==
    LET s2 == NMin2(nx, ny)
        cx4 == e.center_x2 * s2 + 2 * nx
        cy4 == e.center_y2 * s2 + 2 * ny
        major4 == e.major_axis2 * s2
        minor4 == e.minor_axis2 * s2
        halfwidth == [v |-> Abs(major4),
                      tiny |-> IF major4 = 0 THEN Abs(minor4) ELSE 0]
        halfheight == [v |-> Abs(minor4), tiny |-> 0]
    IN  [x_low |-> FloorLow(cx4, halfwidth), x_high |-> CeilHigh(cx4, halfwidth),
         y_low |-> FloorLow(cy4, halfheight), y_high |-> CeilHigh(cy4, halfheight)]

\* the projected ellipses
ProjectedEllipses == {i \in 1..Len(canvas) : shapes[i].kind = "Ellipse"}

\* C27: on a canvas with nx >= 1 and ny >= 1 the bounding box of every
\* ellipse satisfies 0 <= x_low <= x_high <= nx - 1 and
\* 0 <= y_low <= y_high <= ny - 1, and each bound is the clamp of
\* floor(centre - half) or ceil(centre + half); the pixels the rasterizer
\* tests for an ellipse lie on the canvas.
C27_EllipseBBoxOnCanvas ==
    (nx >= 1 /\ ny >= 1) =>
        /\ (pc = "shape" /\ si = 1) =>
               \A i \in ProjectedEllipses :
                   LET b == BBox(canvas[i])
                       r == RawBounds(shapes[i])
                   IN  /\ 0 <= b.x_low /\ b.x_low <= b.x_high
                       /\ b.x_high <= nx - 1
                       /\ 0 <= b.y_low /\ b.y_low <= b.y_high
                       /\ b.y_high <= ny - 1
                       /\ b.x_low = ClaimedClamp(r.x_low, nx)
                       /\ b.x_high = ClaimedClamp(r.x_high, nx)
                       /\ b.y_low = ClaimedClamp(r.y_low, ny)
                       /\ b.y_high = ClaimedClamp(r.y_high, ny)
        /\ (pc = "pixel" /\ si \in ProjectedEllipses) =>
               /\ 0 <= x /\ x <= nx - 1
               /\ 0 <= y /\ y <= ny - 1

\* an ellipse wider and higher than its canvas is projected: all four
\* bounds are clamped, to 0 and to the last pixel
C27_Witness ==
    /\ pc = "shape" /\ si = 1
    /\ nx >= 2 /\ ny >= 2 /\ nx # ny
    /\ \E i \in ProjectedEllipses :
           LET b == BBox(canvas[i])
               r == RawBounds(shapes[i])
           IN  /\ r.x_low < 0 /\ r.x_high >= nx
               /\ r.y_low < 0 /\ r.y_high >= ny
               /\ b = BoundingBox(0, nx - 1, 0, ny - 1)

(***************************************************************************)
(* The extrema of an empty buffer, under SpecPhantom.                       *)
(***************************************************************************)

\* the pair (+infinity, -infinity) multiplied by factor, as IEEE 754 does
ScaledEmptyExtrema(factor) ==
    IF factor > 0 THEN <<PosInf, NegInf>>
    ELSE IF factor < 0 THEN <<NegInf, PosInf>>
    ELSE <<NaN, NaN>>

\* C28: on a Phantom with an empty buffer (nx * ny = 0), extrema returns
\* (+infinity, -infinity), a pair whose first component is greater than
\* its second, and caches it; a scale that follows multiplies the cached
\* pair by its factor.
C28_EmptyBufferExtrema ==
    \A k \in 1..Len(trace) :
        (trace[k].before.data = <<>> /\ nx * ny = 0) =>
            /\ (trace[k].op = "extrema" /\ trace[k].before.minmax.none) =>
                   /\ trace[k].ret = <<PosInf, NegInf>>
                   /\ FLt(trace[k].ret[2], trace[k].ret[1])
                   /\ After(k).minmax = Some(<<PosInf, NegInf>>)
                   /\ After(k).data = <<>>
            /\ (k > 1 /\ trace[k].op = "scale" /\ trace[k - 1].op = "extrema"
                    /\ trace[k - 1].before.minmax.none) =>
                   After(k).minmax = Some(ScaledEmptyExtrema(trace[k].factor))

\* extrema was called on an empty buffer with the cache unset, and scale
\* with a negative factor right after it
C28_Witness ==
    /\ nx * ny = 0
    /\ pc = "done"
    /\ \E k \in 2..Len(trace) :
        /\ trace[k - 1].op = "extrema"
        /\ trace[k - 1].before.minmax.none
        /\ trace[k - 1].before.data = <<>>
        /\ trace[k].op = "scale" /\ trace[k].factor < 0
        /\ minmax = Some(<<NegInf, PosInf>>)

-----------------------------------------------------------------------------
(* The function phantom of lib.rs with the Ellipse of ellipse.rs.  An        *)
(* ellipse is the record of Ellipse (centre and axes in scale 2) with        *)
(* theta = 0; its axes are 0.5, 1 or 2 and the smaller canvas dimension is   *)
(* 1, 2 or 4, so that every division of Ellipse::inside and of the pixel's   *)
(* normalized coordinates is exact in f64.                                   *)

\* Ellipse::bounding_box (ellipse.rs:110-133): one bound, clamped
LegacyClamp(v, n) == IF v < 0 THEN 0 ELSE IF v >= n THEN n - 1 ELSE v

\* Ellipse::bounding_box for theta = 0: (bx1, by1, bx2, by2); the half
\* width and half height of Ellipse::new (ellipse.rs:48-59) are the axes
LegacyBoundingBox(e, w, h) ==
    LET s2 == Min(w, h)
    IN  <<LegacyClamp(Floor((e.center_x2 - e.major_axis2) * s2 + 2 * w, 4), w),
          LegacyClamp(Floor((e.center_y2 - e.minor_axis2) * s2 + 2 * h, 4), h),
          LegacyClamp(Ceil((e.center_x2 + e.major_axis2) * s2 + 2 * w, 4), w),
          LegacyClamp(Ceil((e.center_y2 + e.minor_axis2) * s2 + 2 * h, 4), h)>>

\* Ellipse::inside (ellipse.rs:77-84) at the normalized point of the pixel
\* (px, py): xi = (px - nx2) / nmin, yi = (py - ny2) / nmin (lib.rs:149, 154)
LegacyInside(e, px, py, w, h) ==
    LET s2 == Min(w, h)
        xs == 2 * (2 * px - w) - e.center_x2 * s2
        ys == 2 * (2 * py - h) - e.center_y2 * s2
        a == e.major_axis2 * s2
        b == e.minor_axis2 * s2
    IN  xs * xs * b * b + ys * ys * a * a <= a * a * b * b

\* the pixels of the loops of lib.rs:146-161 at which inside is true
LegacyHits(e, w, h) ==
    LET bbox == LegacyBoundingBox(e, w, h)
    IN  {p \in (bbox[1]..(bbox[3] - 1)) \X (bbox[2]..(bbox[4] - 1)) :
             LegacyInside(e, p[1], p[2], w, h)}

\* the index expression of lib.rs:158, before it is taken as usize
LegacyIndex(p, w, h) == (h - p[2] - 1) * w + p[1] - 1

RECURSIVE LegacySum(_, _, _, _, _)
\* the sum of the intensities of the first n ellipses over their hits that
\* are written to the entry idx
LegacySum(es, n, idx, w, h) ==
    IF n = 0 THEN 0
    ELSE LegacySum(es, n - 1, idx, w, h)
             + es[n].intensity
                 * Cardinality({p \in LegacyHits(es[n], w, h) :
                                    LegacyIndex(p, w, h) = idx})

\* phantom of lib.rs: the Vec returned.  The loops end before bbox.2 and
\* bbox.3, which are at most nx - 1 and ny - 1, so that y <= ny - 2 and the
\* index expression stays within 0..nx * ny - 1.
LegacyPhantom(es, w, h) ==
    [idx \in 0..(w * h - 1) |-> LegacySum(es, Len(es), idx, w, h)]

\* the ellipses of SpecLegacy
LegacyCentres2 == {-2, -1, 0, 1}
LegacyAxes2 == {1, 2, 4}
LegacyEllipses ==
    {Ellipse(cx, cy, a, b, 0, i) :
        cx \in LegacyCentres2, cy \in LegacyCentres2,
        a \in LegacyAxes2, b \in LegacyAxes2, i \in Intensities}

\* the canvases of SpecLegacy: the smaller dimension is a power of two
LegacyCanvases ==
    {c \in (1..MaxN) \X (1..MaxN) : Min(c[1], c[2]) \in {1, 2, 4}}

InitLegacy ==
    /\ \E c \in LegacyCanvases : nx = c[1] /\ ny = c[2]
    /\ shapes \in {<<e>> : e \in LegacyEllipses}
                      \cup {<<Ellipse(0, 0, 2, 2, 0, 2), Ellipse(1, 0, 1, 2, 0, 1)>>}
    /\ build \in Builds
    /\ pc = "new"
    /\ canvas = <<>>
    /\ buflen = WrapU32(0)
    /\ data = <<>>
    /\ minmax = None
    /\ si = 1
    /\ x = 0
    /\ y = 0
    /\ hits = 0
    /\ trace = <<>>

\* phantom(&shapes, nx, ny) returns its Vec
LegacyReturn ==
    /\ pc = "new"
    /\ data' = LegacyPhantom(shapes, nx, ny)
    /\ buflen' = WrapU32(nx * ny)
    /\ pc' = "done"
    /\ UNCHANGED <<nx, ny, shapes, build, canvas, minmax, si, x, y, hits, trace>>

NextLegacy == LegacyReturn

SpecLegacy == InitLegacy /\ [][NextLegacy]_vars

\* the sum of the intensities of the ellipses that contain the normalized
\* point of the pixel (px, py)
LegacyContaining(px, py) ==
    LET RECURSIVE upto(_)
        upto(n) == IF n = 0 THEN 0
                   ELSE upto(n - 1)
                            + (IF LegacyInside(shapes[n], px, py, nx, ny)
                               THEN shapes[n].intensity ELSE 0)
    IN  upto(Len(shapes))

\* C29 (as claimed): phantom of lib.rs returns, for nx, ny >= 1, a Vec
\* whose entry at (ny - y - 1) * nx + x is, for every pixel (x, y) of the
\* canvas, the sum of the intensities of the ellipses that contain the
\* pixel's normalized point.
C29_LegacyPhantomConvention ==
    pc = "done" =>
        \A p \in CanvasPixels :
            data[(ny - p[2] - 1) * nx + p[1]] = LegacyContaining(p[1], p[2])


(***************************************************************************)
(* SheppLogan::<M, N>::new of lib.rs.  The bounding_box field of an        *)
(* Ellipse is kept in scale 10^4, in which the centres and the axes of the *)
(* ten ellipses are integers.  An entry of the array is kept as the list   *)
(* of the ellipses whose inside_2 was added to it, in the order of the     *)
(* additions: the value added enters no index and no loop bound.           *)
(***************************************************************************)

\* the scale of the bounding_box field
Scale4 == 10000

\* Ellipse::new (ellipse.rs:51-59): the bounding_box field, from the centre
\* and the half width and half height
SheppBox(cx4, cy4, halfwidth4, halfheight4) ==
    <<cx4 - halfwidth4, cy4 - halfheight4, cx4 + halfwidth4, cy4 + halfheight4>>

\* the ten ellipses of SheppLogan::new (lib.rs:175-186).  With theta = 0 the
\* half width is the major axis and the half height the minor axis; for
\* theta = -18 and 18 they are sqrt(ux^2 + vx^2) and sqrt(uy^2 + vy^2) of
\* ellipse.rs:42-52, 0.14185 and 0.29678, 0.19801 and 0.39306, to 10^-4.
SheppEllipses ==
    <<SheppBox(0, 3500, 2100, 2500),
      SheppBox(0, 1000, 460, 460),
      SheppBox(0, -1000, 460, 460),
      SheppBox(-800, -6050, 460, 230),
      SheppBox(0, -6050, 230, 230),
      SheppBox(600, -6050, 230, 460),
      SheppBox(2200, 0, 1418, 2968),
      SheppBox(-2200, 0, 1980, 3931),
      SheppBox(0, -184, 6624, 8740),
      SheppBox(0, 0, 6900, 9200)>>

\* Ellipse::bounding_box_usize (ellipse.rs:145-156): one bound, clamped
UsizeClamp(v, n) == IF v < 0 THEN 0 ELSE IF v >= n THEN n - 1 ELSE v

\* Ellipse::bounding_box_usize(w, h) (ellipse.rs:137-158)
bounding_box_usize(box4, w, h) ==
    LET m == Min(w, h)
    IN  <<UsizeClamp(Floor(box4[1] * m + Scale4 * w, 2 * Scale4), w),
          UsizeClamp(Floor(box4[2] * m + Scale4 * h, 2 * Scale4), h),
          UsizeClamp(Ceil(box4[3] * m + Scale4 * w, 2 * Scale4), w),
          UsizeClamp(Ceil(box4[4] * m + Scale4 * h, 2 * Scale4), h)>>

\* the accesses data[y][x] of the loops of lib.rs:191-207 for the ellipse
\* k, in the order in which they are made, as pairs <<y, x>>.  The call is
\* bounding_box_usize(N, M); nx holds N and ny holds M.
SheppAccesses(k) ==
    LET bbox == bounding_box_usize(SheppEllipses[k], nx, ny)
        cols == IF bbox[3] > bbox[1] THEN bbox[3] - bbox[1] ELSE 0
        rows == IF bbox[4] > bbox[2] THEN bbox[4] - bbox[2] ELSE 0
    IN  [i \in 1..(rows * cols) |->
            <<bbox[2] + ((i - 1) \div cols), bbox[1] + ((i - 1) % cols)>>]

\* the bounds check of data[y][x] on Box<[[f64; M]; N]>: N rows of M columns
SheppInBounds(a) == a[1] < nx /\ a[2] < ny

\* the sizes M and N of SpecShepp
SheppSizes == 1..MaxN

InitShepp ==
    /\ nx \in SheppSizes
    /\ ny \in SheppSizes
    /\ shapes = <<>>
    /\ build \in Builds
    /\ pc = "new"
    /\ canvas = <<>>
    /\ buflen = WrapU32(0)
    /\ data = <<>>
    /\ minmax = None
    /\ si = 1
    /\ x = 0
    /\ y = 0
    /\ hits = 0
    /\ trace = <<>>

\* Box::new([[0.0; M]; N]) (lib.rs:174)
SheppAllocate ==
    /\ pc = "new"
    /\ data' = [r \in 0..(nx - 1) |-> [c \in 0..(ny - 1) |-> <<>>]]
    /\ pc' = "scan"
    /\ UNCHANGED <<nx, ny, shapes, build, canvas, buflen, minmax, si, x, y,
                   hits, trace>>

\* data[y][x] += e.inside_2(xi, yi) (lib.rs:200) with y and x in bounds
SheppAdd ==
    /\ pc = "scan"
    /\ hits < Len(SheppAccesses(si))
    /\ LET a == SheppAccesses(si)[hits + 1]
       IN  /\ SheppInBounds(a)
           /\ y' = a[1]
           /\ x' = a[2]
           /\ data' = [data EXCEPT ![a[1]][a[2]] = Append(@, si)]
    /\ hits' = hits + 1
    /\ UNCHANGED <<nx, ny, shapes, build, pc, canvas, buflen, minmax, si, trace>>

\* data[y][x] with y >= N or x >= M: the index panics
SheppIndexPanic ==
    /\ pc = "scan"
    /\ hits < Len(SheppAccesses(si))
    /\ LET a == SheppAccesses(si)[hits + 1]
       IN  /\ ~SheppInBounds(a)
           /\ y' = a[1]
           /\ x' = a[2]
    /\ pc' = "panic_index"
    /\ UNCHANGED <<nx, ny, shapes, build, canvas, buflen, data, minmax, si,
                   hits, trace>>

\* the loops over the bounding box of one ellipse end (lib.rs:193-206)
SheppNextEllipse ==
    /\ pc = "scan"
    /\ hits = Len(SheppAccesses(si))
    /\ si < Len(SheppEllipses)
    /\ si' = si + 1
    /\ hits' = 0
    /\ UNCHANGED <<nx, ny, shapes, build, pc, canvas, buflen, data, minmax,
                   x, y, trace>>

\* SheppLogan { data } (lib.rs:208)
SheppReturn ==
    /\ pc = "scan"
    /\ hits = Len(SheppAccesses(si))
    /\ si = Len(SheppEllipses)
    /\ pc' = "done"
    /\ UNCHANGED <<nx, ny, shapes, build, canvas, buflen, data, minmax, si,
                   x, y, hits, trace>>

NextShepp ==
    \/ SheppAllocate
    \/ SheppAdd
    \/ SheppIndexPanic
    \/ SheppNextEllipse
    \/ SheppReturn

SpecShepp == InitShepp /\ [][NextShepp]_vars

\* C30 (as claimed): SheppLogan::<M, N>::new never indexes its array of N
\* rows and M columns out of bounds: for every M >= 1 and N >= 1, M # N
\* included, each access data[y][x] made while the bounding boxes of the
\* ten ellipses are scanned has y < N and x < M.
C30_SheppLoganIndexInBounds ==
    /\ pc # "panic_index"
    /\ (pc = "scan" /\ hits < Len(SheppAccesses(si))) =>
           SheppInBounds(SheppAccesses(si)[hits + 1])
=============================================================================
